---- MODULE Spec2Model ----
(***************************************************************************)
(* A state-machine model of the virtio wayland guest driver virtio_wl.c.   *)
(*                                                                         *)
(* State: the handle table (vi->vfds, an idr), the VFD objects in a pool   *)
(* of memory slots (a freed slot keeps its stale contents and may be       *)
(* handed out again by the allocator), the three kinds of mutexes          *)
(* (vi->vfds_lock, vfd->lock, vi->vq_locks[]), the two virtqueues, the     *)
(* guest's file table, and the position of every guest thread and of the   *)
(* inbound work item.  The host is the environment: it may complete any    *)
(* submitted request with any acknowledgment and push any message.         *)
(***************************************************************************)
EXTENDS Integers, Sequences, FiniteSets, TLC

\* ------------------------------------------------------------- bounds
NumThreads == 3
ActiveThreads == 2
MaxVfd == 2
VIRTWL_MAX_ALLOC == 3
VIRTWL_SEND_MAX_ALLOCS == 1
NumInBuf == 2
OutSlots == 1
MaxFiles == 2
MaxData == 2
MaxSys == 2
MaxPush == 1
MaxEnomem == 1
SeqSys == 4
SeqPush == 2
RecvSys == 4
RecvPush == 2
OutSys == 4
NewSys == 3
CloseSys == 3
DrainSys == 2
DrainPush == 2
HandSys == 4
HandPush == 2
LockSys == 5
LockPush == 1

\* ---------------------------------------------------- program constants
VFD_HOST_VFD_ID_BIT == 1073741824
ERR_PTR_ENOMEM == -12
PAGE_SIZE == 4096
ENOSPC == 28
SIZEOF_RECV == 16
SIZEOF_LE32 == 4
\* unsigned long counts 2^32 bytes, 2^20 pages, before it wraps (32-bit build)
ULONG_PAGES == 1048576

NULL == 0
Threads == 1..NumThreads
InWorker == NumThreads + 1
Slots == 1..MaxVfd
Bufs == 1..NumInBuf
Fds == 1..MaxFiles
\* the fd of the open /dev/wl0 control file (f_op is virtwl_fops)
CtlFd == 0
GuestIds == 1..(VIRTWL_MAX_ALLOC - 1)
HostId == VFD_HOST_VFD_ID_BIT + 1
\* 0xffffffff read as a two's-complement int: bit 31 and bit 30 both set
IllegalId == -1
IdSpace == GuestIds \cup {HostId}

\* id & VFD_ILLEGAL_SIGN_BIT: bit 31 of a u32 is the sign of its int reading
HasIllegalBit(id) == id < 0
\* id & VFD_HOST_VFD_ID_BIT
HasHostBit(id) ==
    LET low31 == IF id < 0 THEN (id + VFD_HOST_VFD_ID_BIT) + VFD_HOST_VFD_ID_BIT
                 ELSE id
    IN (low31 \div VFD_HOST_VFD_ID_BIT) % 2 = 1

VARIABLES
    idr,         \* vi->vfds: id -> pointer (NULL when the id is free)
    vfds_lock,   \* vi->vfds_lock: owner, or NULL
    vq_lock_in,  \* vi->vq_locks[VIRTWL_VQ_IN]: owner, or NULL
    vq_lock_out, \* vi->vq_locks[VIRTWL_VQ_OUT]: owner, or NULL
    vfd,         \* the memory slots that hold struct virtwl_vfd objects
    inbuf,       \* the receive buffers: where each is, and what the host wrote
    in_used,     \* the inbound virtqueue's used ring (completed, not yet reaped)
    out_vq,      \* the outbound virtqueue: each thread's outstanding request
    out_kick,    \* virtqueue_kick(out vq) rang and the host has not looked yet
    files,       \* the guest's open [virtwl_vfd] files: fd -> private_data
    pc,          \* position of each guest thread
    loc,         \* locals of each guest thread
    iw,          \* the inbound work item: position and locals
    hist,        \* observation only: the byte streams that arrived at and were
                 \* received from the recorded VFD, and the callers sleeping in
                 \* vq_queue_out in the order in which they went to sleep
    budget       \* how many more system calls and host pushes this run explores

vars == <<idr, vfds_lock, vq_lock_in, vq_lock_out, vfd, inbuf, in_used,
          out_vq, out_kick, files, pc, loc, iw, hist, budget>>

Min(S) == CHOOSE x \in S : \A y \in S : x <= y

\* the VFD whose byte streams hist records: the one registered under the
\* first guest ID
RecvTarget == Min(GuestIds)

\* hist after the bytes d arrived in the queue of the VFD with ID id
HistSent(id, d) ==
    IF hist.on /\ id = RecvTarget THEN [hist EXCEPT !.sent = @ \o d] ELSE hist

\* hist after a receive call on the VFD with ID id returned the bytes d
HistRcvd(id, d) ==
    IF hist.on /\ id = RecvTarget THEN [hist EXCEPT !.rcvd = @ \o d] ELSE hist

\* hist after the VFD with ID id was freed: its streams have ended
HistFreed(id) ==
    IF hist.on /\ id = RecvTarget THEN [hist EXCEPT !.sent = <<>>, !.rcvd = <<>>]
    ELSE hist

\* hist after virtwl_vfd_remove returned the n queued buffers of the VFD with
\* ID id and freed it
HistFlushed(id, n) ==
    IF hist.on THEN [HistFreed(id) EXCEPT !.flushed = n] ELSE hist

\* one more system call (kind "sys") or host push (kind "push") is explored
Spend(kind) ==
    /\ budget[kind] > 0
    /\ budget' = [budget EXCEPT ![kind] = @ - 1]

\* as Spend, and when the allocation fails one allocation failure is spent too
SpendAlloc(kind, p) ==
    IF p = ERR_PTR_ENOMEM
    THEN /\ budget[kind] > 0
         /\ budget.enomem > 0
         /\ budget' = [budget EXCEPT ![kind] = @ - 1, !.enomem = @ - 1]
    ELSE Spend(kind)

\* ------------------------------------------------------------ objects
\* kzalloc(sizeof(struct virtwl_vfd)) followed by virtwl_vfd_alloc's inits
FreshVfd ==
    [alloc |-> TRUE, lock |-> NULL, id |-> 0, flags |-> {}, pfn |-> 0,
     size |-> 0, in_queue |-> <<>>]

NeverUsedVfd == [FreshVfd EXCEPT !.alloc = FALSE]

NoMsg ==
    [type |-> "NONE", vfd_id |-> 0, vfds |-> <<>>, data |-> <<>>,
     size |-> 0, pfn |-> 0, flags |-> {}]

NoReq ==
    [st |-> "none", type |-> "NONE", vfd_id |-> 0, vfds |-> <<>>,
     size |-> 0, pfn |-> 0, flags |-> {}]

\* arg: the fd list as the caller passed it (kept for observation only)
\* sys: the system call; op: the routine that is using vq_queue_out or
\* virtwl_vfd_lock_unlink; todo: the VFDs do_vfd_close is still to be called on
NoLoc ==
    [sys |-> "none", op |-> "none", type |-> "NONE", file |-> 0, fds |-> <<>>,
     vfd |-> NULL, nonblock |-> FALSE, ret |-> "OK", sysret |-> "OK", id |-> 0,
     ids |-> <<>>, size |-> 0, len |-> 0, rd |-> 0, out |-> <<>>, vr |-> <<>>,
     qi |-> 0, todo |-> <<>>, map |-> 0, arg |-> <<>>]

IdleIw == [pc |-> "idle", buf |-> 0, vfd |-> NULL]

IsVfdPtr(p) == p \in Slots

Init ==
    /\ idr = [k \in IdSpace |-> NULL]
    /\ vfds_lock = NULL
    /\ vq_lock_in = NULL
    /\ vq_lock_out = NULL
    /\ vfd = [s \in Slots |-> NeverUsedVfd]
    /\ inbuf = [b \in Bufs |-> [where |-> "avail", msg |-> NoMsg]]
    /\ in_used = <<>>
    /\ out_vq = [t \in Threads |-> NoReq]
    /\ out_kick = FALSE
    /\ files = [f \in Fds |-> NULL]
    /\ pc = [t \in Threads |-> "idle"]
    /\ loc = [t \in Threads |-> NoLoc]
    /\ iw = IdleIw
    /\ hist = [on |-> FALSE, sent |-> <<>>, rcvd |-> <<>>, waitq |-> <<>>,
               flushed |-> 0]
    /\ budget = [sys |-> MaxSys, push |-> MaxPush, enomem |-> MaxEnomem]

\* the same start, exploring sys system calls and push host pushes, with the
\* byte streams recorded or not
InitWith(sys, push, enomem, record) ==
    /\ idr = [k \in IdSpace |-> NULL]
    /\ vfds_lock = NULL
    /\ vq_lock_in = NULL
    /\ vq_lock_out = NULL
    /\ vfd = [s \in Slots |-> NeverUsedVfd]
    /\ inbuf = [b \in Bufs |-> [where |-> "avail", msg |-> NoMsg]]
    /\ in_used = <<>>
    /\ out_vq = [t \in Threads |-> NoReq]
    /\ out_kick = FALSE
    /\ files = [f \in Fds |-> NULL]
    /\ pc = [t \in Threads |-> "idle"]
    /\ loc = [t \in Threads |-> NoLoc]
    /\ iw = IdleIw
    /\ hist = [on |-> record, sent |-> <<>>, rcvd |-> <<>>, waitq |-> <<>>,
               flushed |-> 0]
    /\ budget = [sys |-> sys, push |-> push, enomem |-> enomem]

\* ------------------------------------------------------------ helpers
PAGE_ALIGN(x) == ((x + (PAGE_SIZE - 1)) \div PAGE_SIZE) * PAGE_SIZE

\* idr_alloc(&vi->vfds, ptr, start, end): the smallest free id in [start, end),
\* or -ENOSPC
idr_alloc(tbl, start, end) ==
    LET free == {k \in DOMAIN tbl : start <= k /\ k < end /\ tbl[k] = NULL}
    IN IF free = {} THEN 0 - ENOSPC ELSE Min(free)

\* idr_find(&vi->vfds, id)
idr_find(tbl, id) == IF id \in DOMAIN tbl THEN tbl[id] ELSE NULL

\* idr_remove(&vi->vfds, id)
idr_remove(tbl, id) == IF id \in DOMAIN tbl THEN [tbl EXCEPT ![id] = NULL] ELSE tbl

virtwl_resp_err(type) ==
    CASE type \in {"RESP_OK", "RESP_VFD_NEW"} -> "OK"
      [] type = "RESP_ERR" -> "ENODEV"
      [] type = "RESP_OUT_OF_MEMORY" -> "ENOMEM"
      [] OTHER -> "EINVAL"

\* vq->num_free of the outbound queue: a request holds its slot from
\* virtqueue_add_sgs until the outbound worker's virtqueue_get_buf
num_free ==
    OutSlots - Cardinality({t \in Threads : out_vq[t].st \in {"avail", "used"}})

Goto(t, label, l) ==
    /\ pc' = [pc EXCEPT ![t] = label]
    /\ loc' = [loc EXCEPT ![t] = l]

\* the memory of a VFD given back to the allocator: the contents stay as
\* they are until the slot is handed out again
kfree_vfd(v, p) == IF IsVfdPtr(p) THEN [v EXCEPT ![p].alloc = FALSE] ELSE v

\* ---------------------------------------------------- vq_queue_out
\* the request a caller of vq_queue_out has built in its out_sg
BuildReq(l) ==
    CASE l.op = "new" ->
           [NoReq EXCEPT !.st = "avail",
              !.type = IF l.type = "CTX" THEN "CMD_VFD_NEW_CTX" ELSE "CMD_VFD_NEW",
              !.vfd_id = l.id,
              !.size = IF l.type = "CTX" THEN 0 ELSE l.size,
              !.flags = IF l.type = "CTX" THEN {"CONTROL"} ELSE {"WRITE", "MAP"}]
      [] l.op = "send" ->
           [NoReq EXCEPT !.st = "avail", !.type = "CMD_VFD_SEND",
              !.vfd_id = l.id, !.vfds = l.ids]
      [] OTHER ->
           [NoReq EXCEPT !.st = "avail", !.type = "CMD_VFD_CLOSE", !.vfd_id = l.id]

\* a close that tears down as soon as its request is queued
AfterQueue_nowait(l, r) ==
    CASE l.op = "new" -> IF r = "OK" THEN "new_wait" ELSE "new_remove"
      [] l.op = "send" -> IF r = "OK" THEN "send_wait" ELSE "done"
      [] OTHER -> IF r = "OK" THEN "lu_tbl" ELSE "close_ret"

\* where the caller of vq_queue_out goes with its return value
AfterQueue(l, r) ==
    CASE l.op = "new" -> IF r = "OK" THEN "new_wait" ELSE "new_remove"
      [] l.op = "send" -> IF r = "OK" THEN "send_wait" ELSE "done"
      [] OTHER -> IF r = "OK" THEN "close_wait" ELSE "close_ret"

RECURSIVE Without(_, _)
Without(q, t) ==
    IF q = <<>> THEN <<>>
    ELSE IF Head(q) = t THEN Without(Tail(q), t)
    ELSE <<Head(q)>> \o Without(Tail(q), t)

\* hist after caller t went to sleep on vi->out_waitq (it keeps its place if
\* it is going back to sleep), and after it left vq_queue_out
HistSleep(t) ==
    IF \E i \in 1..Len(hist.waitq) : hist.waitq[i] = t THEN hist
    ELSE [hist EXCEPT !.waitq = Append(@, t)]
HistLeave(t) == [hist EXCEPT !.waitq = Without(@, t)]

vq_queue_out_lock(t) ==
    /\ pc[t] = "qo_lock"
    /\ vq_lock_out = NULL
    /\ vq_lock_out' = t
    /\ pc' = [pc EXCEPT ![t] = "qo_add"]
    /\ UNCHANGED <<idr, vfds_lock, vq_lock_in, vfd, inbuf, in_used, out_vq,
                   out_kick, files, loc, iw, hist, budget>>

\* a queue that makes every caller without a slot sleep, O_NONBLOCK or not
vq_queue_out_try_sleeps(free, nonblock) ==
    IF free > 0 THEN "OK" ELSE "wait"

\* the outcome of one pass of the while loop of vq_queue_out, the lock held:
\* "OK" (added), "EAGAIN", or "wait"
vq_queue_out_try(free, nonblock) ==
    IF free > 0 THEN "OK" ELSE IF nonblock THEN "EAGAIN" ELSE "wait"

vq_queue_out_add(t) ==
    /\ pc[t] = "qo_add"
    /\ LET r == vq_queue_out_try(num_free, loc[t].nonblock)
       IN /\ vq_lock_out' = NULL
          /\ IF r = "OK"
             THEN /\ out_vq' = [out_vq EXCEPT ![t] = BuildReq(loc[t])]
                  /\ out_kick' = TRUE
                  /\ hist' = HistLeave(t)
                  /\ Goto(t, AfterQueue(loc[t], "OK"), [loc[t] EXCEPT !.ret = "OK"])
             ELSE /\ UNCHANGED <<out_vq, out_kick>>
                  /\ IF r = "EAGAIN"
                     THEN /\ Goto(t, AfterQueue(loc[t], "EAGAIN"),
                                  [loc[t] EXCEPT !.ret = "EAGAIN"])
                          /\ hist' = HistLeave(t)
                     ELSE /\ Goto(t, "qo_wait", loc[t])
                          /\ hist' = HistSleep(t)
    /\ UNCHANGED <<idr, vfds_lock, vq_lock_in, vfd, inbuf, in_used, files, iw, budget>>

\* wait_event_timeout(vi->out_waitq, vq->num_free > 0, HZ)
vq_queue_out_wait(t) ==
    /\ pc[t] = "qo_wait"
    /\ IF num_free > 0
       THEN /\ Goto(t, "qo_lock", loc[t])
            /\ hist' = hist
       ELSE /\ Goto(t, AfterQueue(loc[t], "EBUSY"), [loc[t] EXCEPT !.ret = "EBUSY"])
            /\ hist' = HistLeave(t)
    /\ UNCHANGED <<idr, vfds_lock, vq_lock_in, vq_lock_out, vfd, inbuf, in_used,
                   out_vq, out_kick, files, iw, budget>>

\* wait_for_completion(&finish_completion) has returned for thread t
Completed(t) == out_vq[t].st = "done"

\* ---------------------------------------------------- outbound worker
vq_out_work_handler ==
    /\ vq_lock_out = NULL
    /\ \E t \in Threads : out_vq[t].st = "used"
    /\ out_vq' = [t \in Threads |->
                    IF out_vq[t].st = "used" THEN [out_vq[t] EXCEPT !.st = "done"]
                    ELSE out_vq[t]]
    /\ UNCHANGED <<idr, vfds_lock, vq_lock_in, vq_lock_out, vfd, inbuf, in_used,
                   out_kick, files, pc, loc, iw, hist, budget>>

\* ------------------------------------------------------ the host
NewResponses == {"RESP_VFD_NEW", "RESP_OUT_OF_MEMORY"}
SendResponses == {"RESP_OK", "RESP_ERR"}

\* the host consumes a request and writes its acknowledgment into the in_sg;
\* for a new allocation it reports the size rounded up to whole pages
HostWrites(t, resp) ==
    /\ out_vq[t].st = "avail"
    /\ out_vq' = [out_vq EXCEPT ![t] =
                    IF resp = "RESP_VFD_NEW"
                    THEN [@ EXCEPT !.st = "used", !.type = resp, !.pfn = 1,
                                    !.size = PAGE_ALIGN(@)]
                    ELSE [@ EXCEPT !.st = "used", !.type = resp]]
    /\ out_kick' = FALSE
    /\ UNCHANGED <<idr, vfds_lock, vq_lock_in, vq_lock_out, vfd, inbuf, in_used,
                   files, pc, loc, iw, hist, budget>>

\* the host answers with one of the responses explored by default
HostComplete(t, resp) ==
    /\ resp \in (CASE out_vq[t].type \in {"CMD_VFD_NEW", "CMD_VFD_NEW_CTX"} -> NewResponses
                   [] out_vq[t].type = "CMD_VFD_SEND" -> SendResponses
                   [] OTHER -> {"RESP_OK"})
    /\ HostWrites(t, resp)

\* every response the host may give to a create request
AllNewResponses ==
    {"RESP_VFD_NEW", "RESP_ERR", "RESP_OUT_OF_MEMORY", "RESP_INVALID_ID",
     "RESP_INVALID_TYPE"}

\* ---------------------------------------------------- virtwl_vfd_lock_unlink
virtwl_vfd_lock_unlink_tbl(t) ==
    /\ pc[t] = "lu_tbl"
    /\ vfds_lock = NULL
    /\ vfds_lock' = t
    /\ pc' = [pc EXCEPT ![t] = "lu_vfd"]
    /\ UNCHANGED <<idr, vq_lock_in, vq_lock_out, vfd, inbuf, in_used, out_vq,
                   out_kick, files, loc, iw, hist, budget>>

virtwl_vfd_lock_unlink_vfd(t) ==
    /\ pc[t] = "lu_vfd"
    /\ LET p == loc[t].vfd
       IN /\ vfd[p].lock = NULL
          /\ vfd' = [vfd EXCEPT ![p].lock = t]
          /\ idr' = idr_remove(idr, vfd[p].id)
    /\ vfds_lock' = NULL
    /\ pc' = [pc EXCEPT ![t] = IF loc[t].op = "new" THEN "new_free" ELSE "rm_vq"]
    /\ UNCHANGED <<vq_lock_in, vq_lock_out, inbuf, in_used, out_vq, out_kick,
                   files, loc, iw, hist, budget>>

\* ------------------------------------------------------------- do_new
\* virtwl_ioctl_new up to and including do_new's mutex_lock(&vfd->lock);
\* p is what virtwl_vfd_alloc returned
do_new_alloc(t, type, size, nonblock, p) ==
    /\ pc[t] = "idle"
    /\ SpendAlloc("sys", p)
    /\ \/ /\ type \notin {"CTX", "ALLOC"}
          /\ p = NULL
          /\ Goto(t, "done", [NoLoc EXCEPT !.sys = "new", !.op = "new", !.type = type,
                                     !.ret = "EINVAL"])
          /\ vfd' = vfd
       \/ /\ type \in {"CTX", "ALLOC"}
          /\ p = ERR_PTR_ENOMEM
          \* if (!vfd) does not catch ERR_PTR(-ENOMEM): mutex_lock faults
          /\ Goto(t, "oops", [NoLoc EXCEPT !.sys = "new", !.op = "new", !.type = type,
                                     !.vfd = p])
          /\ vfd' = vfd
       \/ /\ type \in {"CTX", "ALLOC"}
          /\ IsVfdPtr(p)
          /\ ~vfd[p].alloc
          /\ vfd' = [vfd EXCEPT ![p] = [FreshVfd EXCEPT !.lock = t]]
          /\ Goto(t, "new_tbl",
                  [NoLoc EXCEPT !.sys = "new", !.op = "new", !.type = type, !.vfd = p,
                                !.size = PAGE_ALIGN(size), !.nonblock = nonblock])
    /\ UNCHANGED <<idr, vfds_lock, vq_lock_in, vq_lock_out, inbuf, in_used,
                   out_vq, out_kick, files, iw, hist>>

do_new_tbl(t) ==
    /\ pc[t] = "new_tbl"
    /\ vfds_lock = NULL
    /\ vfds_lock' = t
    /\ pc' = [pc EXCEPT ![t] = "new_idr"]
    /\ UNCHANGED <<idr, vq_lock_in, vq_lock_out, vfd, inbuf, in_used, out_vq,
                   out_kick, files, loc, iw, hist, budget>>

do_new_idr(t) ==
    /\ pc[t] = "new_idr"
    /\ LET ret == idr_alloc(idr, 1, VIRTWL_MAX_ALLOC)
       IN IF ret <= 0
          THEN \* goto free_vfd
               /\ idr' = idr
               /\ vfd' = kfree_vfd(vfd, loc[t].vfd)
               /\ Goto(t, "done", [loc[t] EXCEPT !.ret = "ENOSPC", !.vfd = NULL])
          ELSE /\ idr' = [idr EXCEPT ![ret] = loc[t].vfd]
               /\ vfd' = vfd
               /\ Goto(t, "new_setid", [loc[t] EXCEPT !.id = ret])
    /\ vfds_lock' = NULL
    /\ UNCHANGED <<vq_lock_in, vq_lock_out, inbuf, in_used, out_vq, out_kick,
                   files, iw, hist, budget>>

do_new_setid(t) ==
    /\ pc[t] = "new_setid"
    /\ vfd' = [vfd EXCEPT ![loc[t].vfd].id = loc[t].id]
    /\ pc' = [pc EXCEPT ![t] = "qo_lock"]
    /\ UNCHANGED <<idr, vfds_lock, vq_lock_in, vq_lock_out, inbuf, in_used,
                   out_vq, out_kick, files, loc, iw, hist, budget>>

\* wait_for_completion, virtwl_resp_err, and the success path to return vfd
do_new_wait(t) ==
    /\ pc[t] = "new_wait"
    /\ Completed(t)
    /\ LET ret == virtwl_resp_err(out_vq[t].type)
           p == loc[t].vfd
       IN IF ret # "OK"
          THEN /\ vfd' = vfd
               /\ Goto(t, "new_remove", [loc[t] EXCEPT !.ret = ret])
          ELSE /\ vfd' = [vfd EXCEPT ![p].size = out_vq[t].size,
                                     ![p].pfn = out_vq[t].pfn,
                                     ![p].flags = out_vq[t].flags,
                                     ![p].lock = NULL]
               /\ Goto(t, "new_getfd", loc[t])
    /\ out_vq' = [out_vq EXCEPT ![t] = NoReq]
    /\ UNCHANGED <<idr, vfds_lock, vq_lock_in, vq_lock_out, inbuf, in_used,
                   out_kick, files, iw, hist, budget>>

\* remove_vfd without the mutex_unlock
do_new_remove_locked(t) ==
    /\ pc[t] = "new_remove"
    /\ pc' = [pc EXCEPT ![t] = "lu_tbl"]
    /\ UNCHANGED <<idr, vfds_lock, vq_lock_in, vq_lock_out, vfd, inbuf, in_used,
                   out_vq, out_kick, files, loc, iw, hist, budget>>

\* remove_vfd: mutex_unlock(&vfd->lock), then virtwl_vfd_lock_unlink
do_new_remove(t) ==
    /\ pc[t] = "new_remove"
    /\ vfd' = [vfd EXCEPT ![loc[t].vfd].lock = NULL]
    /\ pc' = [pc EXCEPT ![t] = "lu_tbl"]
    /\ UNCHANGED <<idr, vfds_lock, vq_lock_in, vq_lock_out, inbuf, in_used,
                   out_vq, out_kick, files, loc, iw, hist, budget>>

\* free_vfd: virtwl_vfd_free(vfd); return ERR_PTR(ret)
do_new_free(t) ==
    /\ pc[t] = "new_free"
    /\ vfd' = kfree_vfd(vfd, loc[t].vfd)
    /\ hist' = HistFreed(vfd[loc[t].vfd].id)
    /\ Goto(t, "done", [loc[t] EXCEPT !.vfd = NULL])
    /\ UNCHANGED <<idr, vfds_lock, vq_lock_in, vq_lock_out, inbuf, in_used,
                   out_vq, out_kick, files, iw, budget>>

\* the system call returns to user space
SyscallReturn(t) ==
    /\ pc[t] = "done"
    /\ Goto(t, "idle", NoLoc)
    /\ UNCHANGED <<idr, vfds_lock, vq_lock_in, vq_lock_out, vfd, inbuf, in_used,
                   out_vq, out_kick, files, iw, hist, budget>>

\* ----------------------------------------------------- receive buffers
\* vq_return_inbuf_locked(vq, buffer): the buffer is posted to the host again
vq_return_inbuf(inb, b) == [inb EXCEPT ![b] = [where |-> "avail", msg |-> NoMsg]]

\* a flush that returns the buffer of the first queued entry only
ReturnAll_head(inb, q) ==
    IF q = <<>> THEN inb ELSE vq_return_inbuf(inb, Head(q).buf)

RECURSIVE ReturnAll(_, _)
\* the loop of virtwl_vfd_remove: every queued entry's buffer is returned
ReturnAll(inb, q) ==
    IF q = <<>> THEN inb ELSE ReturnAll(vq_return_inbuf(inb, Head(q).buf), Tail(q))

\* qentry->len: the used length the host reported for the message
MsgLen(m) == SIZEOF_RECV + Len(m.vfds) * SIZEOF_LE32 + Len(m.data)

\* ------------------------------------------------------- do_vfd_close
\* the next VFD of the to-do list is closed: do_vfd_close up to vq_queue_out
do_vfd_close_start(t) ==
    /\ pc[t] = "close_start"
    /\ LET p == Head(loc[t].todo)
       IN IF ~IsVfdPtr(p)
          THEN Goto(t, "oops", loc[t])
          ELSE Goto(t, "qo_lock",
                    [loc[t] EXCEPT !.op = "close", !.vfd = p, !.id = vfd[p].id,
                                   !.nonblock = FALSE])
    /\ UNCHANGED <<idr, vfds_lock, vq_lock_in, vq_lock_out, vfd, inbuf, in_used,
                   out_vq, out_kick, files, iw, hist, budget>>

do_vfd_close_wait(t) ==
    /\ pc[t] = "close_wait"
    /\ Completed(t)
    /\ out_vq' = [out_vq EXCEPT ![t] = NoReq]
    /\ pc' = [pc EXCEPT ![t] = "lu_tbl"]
    /\ UNCHANGED <<idr, vfds_lock, vq_lock_in, vq_lock_out, vfd, inbuf, in_used,
                   out_kick, files, loc, iw, hist, budget>>

\* virtwl_vfd_remove after virtwl_vfd_lock_unlink: mutex_lock(vq_lock)
virtwl_vfd_remove_vq(t) ==
    /\ pc[t] = "rm_vq"
    /\ vq_lock_in = NULL
    /\ vq_lock_in' = t
    /\ pc' = [pc EXCEPT ![t] = "rm_flush"]
    /\ UNCHANGED <<idr, vfds_lock, vq_lock_out, vfd, inbuf, in_used, out_vq,
                   out_kick, files, loc, iw, hist, budget>>

\* the flush loop and virtwl_vfd_free without the mutex_unlock(vq_lock)
virtwl_vfd_remove_flush_locked(t) ==
    /\ pc[t] = "rm_flush"
    /\ LET p == loc[t].vfd
       IN /\ inbuf' = [b \in Bufs |->
                         IF \E i \in 1..Len(vfd[p].in_queue) : vfd[p].in_queue[i].buf = b
                         THEN [inbuf[b] EXCEPT !.where = "avail"] ELSE inbuf[b]]
          /\ vfd' = [vfd EXCEPT ![p].in_queue = <<>>, ![p].alloc = FALSE]
    /\ pc' = [pc EXCEPT ![t] = "close_ret"]
    /\ UNCHANGED <<idr, vfds_lock, vq_lock_in, vq_lock_out, in_used, out_vq,
                   out_kick, files, loc, iw, hist, budget>>

\* the flush loop, mutex_unlock(vq_lock) and virtwl_vfd_free
virtwl_vfd_remove_flush(t) ==
    /\ pc[t] = "rm_flush"
    /\ LET p == loc[t].vfd
       IN /\ inbuf' = ReturnAll(inbuf, vfd[p].in_queue)
          /\ vfd' = kfree_vfd([vfd EXCEPT ![p].in_queue = <<>>], p)
    /\ vq_lock_in' = NULL
    /\ hist' = HistFlushed(vfd[loc[t].vfd].id, Len(vfd[loc[t].vfd].in_queue))
    /\ pc' = [pc EXCEPT ![t] = "close_ret"]
    /\ UNCHANGED <<idr, vfds_lock, vq_lock_out, in_used, out_vq, out_kick,
                   files, loc, iw, budget>>

\* do_vfd_close returns (its result is dropped by every caller)
do_vfd_close_ret(t) ==
    /\ pc[t] = "close_ret"
    /\ LET rest == Tail(loc[t].todo)
       IN IF rest = <<>>
          THEN Goto(t, "done", [loc[t] EXCEPT !.todo = rest, !.vfd = NULL,
                                              !.ret = loc[t].sysret])
          ELSE Goto(t, "close_start", [loc[t] EXCEPT !.todo = rest])
    /\ UNCHANGED <<idr, vfds_lock, vq_lock_in, vq_lock_out, vfd, inbuf, in_used,
                   out_vq, out_kick, files, iw, hist, budget>>

\* ------------------------------------------------------ guest files
FreeFds == {f \in Fds : files[f] = NULL}

\* a file some system call in progress holds a reference to (fdget)
FileBusy(f) ==
    \E t \in Threads :
        /\ pc[t] \notin {"idle", "oops"}
        /\ \/ loc[t].file = f
           \/ \E i \in 1..Len(loc[t].fds) : loc[t].fds[i] = f

\* virtwl_ioctl_new after do_new returned a VFD: anon_inode_getfd
virtwl_ioctl_new_getfd(t) ==
    /\ pc[t] = "new_getfd"
    /\ IF FreeFds # {}
       THEN /\ files' = [files EXCEPT ![Min(FreeFds)] = loc[t].vfd]
            /\ Goto(t, "done", [loc[t] EXCEPT !.file = Min(FreeFds)])
       ELSE /\ files' = files
            /\ Goto(t, "close_start",
                    [loc[t] EXCEPT !.todo = <<loc[t].vfd>>, !.sysret = "EMFILE"])
    /\ UNCHANGED <<idr, vfds_lock, vq_lock_in, vq_lock_out, vfd, inbuf, in_used,
                   out_vq, out_kick, iw, hist, budget>>

\* close(fd) drops the last reference: virtwl_vfd_release
virtwl_vfd_release(t, f) ==
    /\ pc[t] = "idle"
    /\ Spend("sys")
    /\ files[f] # NULL
    /\ ~FileBusy(f)
    /\ files' = [files EXCEPT ![f] = NULL]
    /\ Goto(t, "close_start",
            [NoLoc EXCEPT !.sys = "release", !.todo = <<files[f]>>])
    /\ UNCHANGED <<idr, vfds_lock, vq_lock_in, vq_lock_out, vfd, inbuf, in_used,
                   out_vq, out_kick, iw, hist>>

\* ------------------------------------------------------ host pushes
MsgNew(id, size, flags) ==
    [NoMsg EXCEPT !.type = "CMD_VFD_NEW", !.vfd_id = id, !.size = size,
                  !.pfn = 1, !.flags = flags]

MsgRecv(id, ids, data) ==
    [NoMsg EXCEPT !.type = "CMD_VFD_RECV", !.vfd_id = id, !.vfds = ids,
                  !.data = data]

\* a message type vq_dispatch_hdr has no case for
MsgOther == [NoMsg EXCEPT !.type = "RESP_OK"]

\* the posted receive buffer the host takes next; which one it takes makes no
\* difference to the driver
NextBuf == Min({b \in Bufs : inbuf[b].where = "avail"} \cup {NumInBuf})

\* the host fills a posted receive buffer and puts it on the used ring
HostPush(b, m) ==
    /\ inbuf[b].where = "avail"
    /\ Spend("push")
    /\ inbuf' = [inbuf EXCEPT ![b] = [where |-> "used", msg |-> m]]
    /\ in_used' = Append(in_used, b)
    /\ UNCHANGED <<idr, vfds_lock, vq_lock_in, vq_lock_out, vfd, out_vq,
                   out_kick, files, pc, loc, iw, hist>>

\* ------------------------------------------------------ inbound worker
\* the id test of vq_handle_new: TRUE when the message is dropped unseen
vq_handle_new_rejects(id) ==
    id = 0 \/ ~HasHostBit(id) \/ HasIllegalBit(id)

\* vq_in_work_handler takes the next used buffer (vq_lock held for
\* virtqueue_get_buf only) and vq_dispatch_hdr classifies it; for a new-handle
\* message this runs vq_handle_new up to its mutex_lock, p being what
\* virtwl_vfd_alloc returned
vq_in_work_get(p) ==
    /\ iw.pc = "idle"
    /\ in_used # <<>>
    /\ vq_lock_in = NULL
    /\ budget' = IF p = ERR_PTR_ENOMEM THEN [budget EXCEPT !.enomem = @ - 1]
                 ELSE budget
    /\ LET b == Head(in_used)
           m == inbuf[b].msg
       IN /\ in_used' = Tail(in_used)
          /\ inbuf' = [inbuf EXCEPT ![b].where = "work"]
          /\ \/ /\ m.type = "CMD_VFD_NEW"
                /\ vq_handle_new_rejects(m.vfd_id)
                /\ p = NULL
                /\ iw' = [iw EXCEPT !.pc = "ret", !.buf = b]
                /\ vfd' = vfd
             \/ /\ m.type = "CMD_VFD_NEW"
                /\ ~vq_handle_new_rejects(m.vfd_id)
                /\ \/ p = ERR_PTR_ENOMEM /\ budget.enomem > 0 /\ vfd' = vfd
                   \/ IsVfdPtr(p) /\ ~vfd[p].alloc /\ vfd' = [vfd EXCEPT ![p] = FreshVfd]
                /\ iw' = [iw EXCEPT !.pc = "new_tbl", !.buf = b, !.vfd = p]
             \/ /\ m.type = "CMD_VFD_RECV"
                /\ p = NULL
                /\ iw' = [iw EXCEPT !.pc = "recv_tbl", !.buf = b]
                /\ vfd' = vfd
             \/ /\ m.type \notin {"CMD_VFD_NEW", "CMD_VFD_RECV"}
                /\ p = NULL
                /\ iw' = [iw EXCEPT !.pc = "ret", !.buf = b]
                /\ vfd' = vfd
    /\ UNCHANGED <<idr, vfds_lock, vq_lock_in, vq_lock_out, out_vq, out_kick,
                   files, pc, loc, hist>>

\* vq_handle_new: mutex_lock(&vi->vfds_lock); idr_alloc; mutex_unlock, and the
\* failure path
vq_handle_new_idr ==
    /\ iw.pc = "new_tbl"
    /\ vfds_lock = NULL
    /\ LET id == inbuf[iw.buf].msg.vfd_id
           ret == idr_alloc(idr, id, id + 1)
       IN IF ret <= 0
          THEN /\ idr' = idr
               /\ IF IsVfdPtr(iw.vfd)
                  THEN /\ vfd' = kfree_vfd(vfd, iw.vfd)
                       /\ iw' = [iw EXCEPT !.pc = "ret", !.vfd = NULL]
                  ELSE \* kfree(ERR_PTR(-ENOMEM)) faults
                       /\ vfd' = vfd
                       /\ iw' = [iw EXCEPT !.pc = "oops"]
          ELSE /\ idr' = [idr EXCEPT ![ret] = iw.vfd]
               /\ vfd' = vfd
               /\ iw' = [iw EXCEPT !.pc = "new_set"]
    /\ UNCHANGED <<vfds_lock, vq_lock_in, vq_lock_out, inbuf, in_used, out_vq,
                   out_kick, files, pc, loc, hist, budget>>

\* vq_handle_new: vfd->id = id; vfd->size ...; no lock is held
vq_handle_new_set ==
    /\ iw.pc = "new_set"
    /\ LET m == inbuf[iw.buf].msg
           p == iw.vfd
       IN IF ~IsVfdPtr(p)
          THEN /\ vfd' = vfd
               /\ iw' = [iw EXCEPT !.pc = "oops"]
          ELSE /\ vfd' = [vfd EXCEPT ![p].id = m.vfd_id, ![p].size = m.size,
                                     ![p].pfn = m.pfn, ![p].flags = m.flags]
               /\ iw' = [iw EXCEPT !.pc = "ret", !.vfd = NULL]
    /\ UNCHANGED <<idr, vfds_lock, vq_lock_in, vq_lock_out, inbuf, in_used,
                   out_vq, out_kick, files, pc, loc, hist, budget>>

\* vq_handle_recv: mutex_lock(&vi->vfds_lock); idr_find
vq_handle_recv_find ==
    /\ iw.pc = "recv_tbl"
    /\ vfds_lock = NULL
    /\ LET p == idr_find(idr, inbuf[iw.buf].msg.vfd_id)
       IN IF p = NULL
          THEN /\ vfds_lock' = NULL
               /\ iw' = [iw EXCEPT !.pc = "ret"]
          ELSE IF ~IsVfdPtr(p)
          THEN /\ vfds_lock' = InWorker
               /\ iw' = [iw EXCEPT !.pc = "oops", !.vfd = p]
          ELSE /\ vfds_lock' = InWorker
               /\ iw' = [iw EXCEPT !.pc = "recv_vfd", !.vfd = p]
    /\ UNCHANGED <<idr, vq_lock_in, vq_lock_out, vfd, inbuf, in_used, out_vq,
                   out_kick, files, pc, loc, hist, budget>>

\* the entry vq_handle_recv links at the tail of vfd->in_queue
NewQentry(b) == [buf |-> b, vfd_offset |-> 0, data_offset |-> 0]

\* vq_handle_recv: mutex_lock(&vfd->lock), the table lock still held, then the
\* rest of the function
vq_handle_recv_add ==
    /\ iw.pc = "recv_vfd"
    /\ vfd[iw.vfd].lock = NULL
    /\ vfds_lock' = NULL
    /\ \/ /\ vfd' = [vfd EXCEPT ![iw.vfd].in_queue = Append(@, NewQentry(iw.buf))]
          /\ inbuf' = [inbuf EXCEPT ![iw.buf].where = "queued"]
          /\ iw' = IdleIw
          /\ hist' = HistSent(vfd[iw.vfd].id, inbuf[iw.buf].msg.data)
          /\ budget' = budget
       \/ \* kzalloc of the qentry fails: return true, the buffer goes back
          /\ budget.enomem > 0
          /\ budget' = [budget EXCEPT !.enomem = @ - 1]
          /\ iw' = [iw EXCEPT !.pc = "ret", !.vfd = NULL]
          /\ UNCHANGED <<vfd, inbuf, hist>>
    /\ UNCHANGED <<idr, vq_lock_in, vq_lock_out, in_used, out_vq, out_kick,
                   files, pc, loc>>

\* vq_dispatch_hdr: the buffer goes back to the inbound queue
vq_dispatch_return ==
    /\ iw.pc = "ret"
    /\ vq_lock_in = NULL
    /\ inbuf' = vq_return_inbuf(inbuf, iw.buf)
    /\ iw' = IdleIw
    /\ UNCHANGED <<idr, vfds_lock, vq_lock_in, vq_lock_out, vfd, in_used,
                   out_vq, out_kick, files, pc, loc, hist, budget>>

\* ------------------------------------------------------------ receive
\* the test of vfd_qentry_free_if_empty: TRUE when the entry is given back
qentry_is_empty(e, m) ==
    IF m.type = "CMD_VFD_RECV"
    THEN LET data_len == MsgLen(m) - SIZEOF_RECV - Len(m.vfds) * SIZEOF_LE32
         IN ~(e.vfd_offset < Len(m.vfds)) /\ ~(e.data_offset < data_len)
    ELSE TRUE

\* a drain that does not cap the copy at the room left in the caller's buffer
vfd_out_to_read_uncapped(e, m, read_count, len) ==
    LET to_read == Len(m.data) - e.data_offset
    IN IF to_read <= 0 \/ m.type # "CMD_VFD_RECV" THEN 0 ELSE to_read

\* vfd_out_locked, one entry: how many bytes this pass copies out of it
vfd_out_to_read(e, m, read_count, len) ==
    LET recv_offset == SIZEOF_RECV + Len(m.vfds) * SIZEOF_LE32 + e.data_offset
        to_read == MsgLen(m) - recv_offset
    IN IF to_read <= 0 \/ m.type # "CMD_VFD_RECV" THEN 0
       ELSE IF to_read + read_count > len THEN len - read_count
       ELSE to_read

\* vfd_out_vfds_locked, one entry: how many handle ids this pass takes from it
vfd_out_vfds_to_read(e, m, read_count, count) ==
    LET vfds_to_read == Len(m.vfds) - e.vfd_offset
    IN IF vfds_to_read <= 0 \/ m.type # "CMD_VFD_RECV" THEN 0
       ELSE IF vfds_to_read + read_count > count THEN count - read_count
       ELSE vfds_to_read

RECURSIVE FoundVfds(_, _)
\* the for loop of vfd_out_vfds_locked: the ids idr_find knows, in order
FoundVfds(tbl, ids) ==
    IF ids = <<>> THEN <<>>
    ELSE LET p == idr_find(tbl, Head(ids))
         IN (IF p # NULL THEN <<p>> ELSE <<>>) \o FoundVfds(tbl, Tail(ids))

RemoveAt(q, i) == SubSeq(q, 1, i - 1) \o SubSeq(q, i + 1, Len(q))

\* ioctl(fd, VIRTWL_IOCTL_RECV) enters virtwl_vfd_recv
virtwl_ioctl_recv(t, f, len, nonblock) ==
    /\ pc[t] = "idle"
    /\ Spend("sys")
    /\ files[f] # NULL
    /\ IF ~IsVfdPtr(files[f])
       THEN Goto(t, "oops", [NoLoc EXCEPT !.sys = "recv", !.file = f, !.vfd = files[f]])
       ELSE Goto(t, "rv_tbl",
                 [NoLoc EXCEPT !.sys = "recv", !.op = "recv", !.file = f,
                               !.vfd = files[f], !.len = len, !.nonblock = nonblock])
    /\ UNCHANGED <<idr, vfds_lock, vq_lock_in, vq_lock_out, vfd, inbuf, in_used,
                   out_vq, out_kick, files, iw, hist>>

virtwl_vfd_recv_tbl(t) ==
    /\ pc[t] = "rv_tbl"
    /\ vfds_lock = NULL
    /\ vfds_lock' = t
    /\ pc' = [pc EXCEPT ![t] = "rv_vfd"]
    /\ UNCHANGED <<idr, vq_lock_in, vq_lock_out, vfd, inbuf, in_used, out_vq,
                   out_kick, files, loc, iw, hist, budget>>

virtwl_vfd_recv_vfd(t) ==
    /\ pc[t] = "rv_vfd"
    /\ vfd[loc[t].vfd].lock = NULL
    /\ vfd' = [vfd EXCEPT ![loc[t].vfd].lock = t]
    /\ pc' = [pc EXCEPT ![t] = "rv_loop"]
    /\ UNCHANGED <<idr, vfds_lock, vq_lock_in, vq_lock_out, inbuf, in_used,
                   out_vq, out_kick, files, loc, iw, hist, budget>>

\* a loop head that returns -EAGAIN with both locks still held
virtwl_vfd_recv_loop_locked(t) ==
    /\ pc[t] = "rv_loop"
    /\ LET p == loc[t].vfd
       IN IF loc[t].rd = 0 /\ loc[t].vr = <<>>
          THEN IF vfd[p].in_queue = <<>>
               THEN /\ IF loc[t].nonblock
                       THEN /\ UNCHANGED <<vfd, vfds_lock>>
                            /\ Goto(t, "done", [loc[t] EXCEPT !.ret = "EAGAIN"])
                       ELSE /\ vfd' = [vfd EXCEPT ![p].lock = NULL]
                            /\ vfds_lock' = NULL
                            /\ Goto(t, "rv_wait", loc[t])
                    /\ hist' = hist
               ELSE /\ Goto(t, "rv_data", [loc[t] EXCEPT !.qi = 1])
                    /\ UNCHANGED <<vfd, vfds_lock, hist, budget>>
          ELSE /\ vfd' = [vfd EXCEPT ![p].lock = NULL]
               /\ vfds_lock' = NULL
               /\ Goto(t, "rv_getfd", loc[t])
               /\ hist' = HistRcvd(vfd[p].id, loc[t].out)
    /\ UNCHANGED <<idr, vq_lock_in, vq_lock_out, inbuf, in_used, out_vq,
                   out_kick, files, iw, budget>>

\* the head of the outer while loop of virtwl_vfd_recv, both locks held
virtwl_vfd_recv_loop(t) ==
    /\ pc[t] = "rv_loop"
    /\ LET p == loc[t].vfd
       IN IF loc[t].rd = 0 /\ loc[t].vr = <<>>
          THEN IF vfd[p].in_queue = <<>>
               THEN /\ vfd' = [vfd EXCEPT ![p].lock = NULL]
                    /\ vfds_lock' = NULL
                    /\ IF loc[t].nonblock
                       THEN Goto(t, "done", [loc[t] EXCEPT !.ret = "EAGAIN"])
                       ELSE Goto(t, "rv_wait", loc[t])
                    /\ hist' = hist
               ELSE /\ Goto(t, "rv_data", [loc[t] EXCEPT !.qi = 1])
                    /\ UNCHANGED <<vfd, vfds_lock, hist, budget>>
          ELSE /\ vfd' = [vfd EXCEPT ![p].lock = NULL]
               /\ vfds_lock' = NULL
               /\ Goto(t, "rv_getfd", loc[t])
               /\ hist' = HistRcvd(vfd[p].id, loc[t].out)
    /\ UNCHANGED <<idr, vq_lock_in, vq_lock_out, inbuf, in_used, out_vq,
                   out_kick, files, iw, budget>>

\* wait_event_interruptible(vfd->in_waitq, !list_empty(&vfd->in_queue))
virtwl_vfd_recv_wait(t, signal) ==
    /\ pc[t] = "rv_wait"
    /\ IF signal
       THEN Goto(t, "done", [loc[t] EXCEPT !.ret = "ERESTARTSYS"])
       ELSE /\ vfd[loc[t].vfd].in_queue # <<>>
            /\ Goto(t, "rv_tbl", loc[t])
    /\ UNCHANGED <<idr, vfds_lock, vq_lock_in, vq_lock_out, vfd, inbuf, in_used,
                   out_vq, out_kick, files, iw, hist, budget>>

\* one turn of the list walk of vfd_out_locked
vfd_out_locked(t) ==
    /\ pc[t] = "rv_data"
    /\ LET p == loc[t].vfd
           q == vfd[p].in_queue
           i == loc[t].qi
       IN IF i > Len(q) \/ loc[t].rd >= loc[t].len
          THEN /\ Goto(t, "rv_vfds", [loc[t] EXCEPT !.qi = 1])
               /\ vfd' = vfd
          ELSE LET e == q[i]
                   m == inbuf[e.buf].msg
                   n == vfd_out_to_read(e, m, loc[t].rd, loc[t].len)
                   e2 == [e EXCEPT !.data_offset = @ + n]
               IN IF n = 0
                  THEN /\ Goto(t, "rv_data", [loc[t] EXCEPT !.qi = i + 1])
                       /\ vfd' = vfd
                  ELSE /\ vfd' = [vfd EXCEPT ![p].in_queue[i] = e2]
                       /\ Goto(t, IF qentry_is_empty(e2, m) THEN "rv_data_fie"
                                  ELSE "rv_data",
                               [loc[t] EXCEPT
                                  !.rd = @ + n,
                                  !.out = @ \o SubSeq(m.data, e.data_offset + 1,
                                                      e.data_offset + n),
                                  !.qi = IF qentry_is_empty(e2, m) THEN i ELSE i + 1])
    /\ UNCHANGED <<idr, vfds_lock, vq_lock_in, vq_lock_out, inbuf, in_used,
                   out_vq, out_kick, files, iw, hist, budget>>

\* one turn of the list walk of vfd_out_vfds_locked
vfd_out_vfds_locked(t) ==
    /\ pc[t] = "rv_vfds"
    /\ LET p == loc[t].vfd
           q == vfd[p].in_queue
           i == loc[t].qi
       IN IF i > Len(q) \/ Len(loc[t].vr) >= VIRTWL_SEND_MAX_ALLOCS
          THEN /\ Goto(t, "rv_loop", loc[t])
               /\ vfd' = vfd
          ELSE LET e == q[i]
                   m == inbuf[e.buf].msg
                   n == vfd_out_vfds_to_read(e, m, Len(loc[t].vr),
                                             VIRTWL_SEND_MAX_ALLOCS)
                   e2 == [e EXCEPT !.vfd_offset = @ + n]
               IN IF n = 0
                  THEN /\ Goto(t, "rv_vfds", [loc[t] EXCEPT !.qi = i + 1])
                       /\ vfd' = vfd
                  ELSE /\ vfd' = [vfd EXCEPT ![p].in_queue[i] = e2]
                       /\ Goto(t, IF qentry_is_empty(e2, m) THEN "rv_vfds_fie"
                                  ELSE "rv_vfds",
                               [loc[t] EXCEPT
                                  !.vr = @ \o FoundVfds(idr,
                                            SubSeq(m.vfds, e.vfd_offset + 1,
                                                   e.vfd_offset + n)),
                                  !.qi = IF qentry_is_empty(e2, m) THEN i ELSE i + 1])
    /\ UNCHANGED <<idr, vfds_lock, vq_lock_in, vq_lock_out, inbuf, in_used,
                   out_vq, out_kick, files, iw, hist, budget>>

\* vfd_qentry_free_if_empty: mutex_lock(vq_lock), the VFD lock held
vfd_qentry_free_lock(t) ==
    /\ pc[t] \in {"rv_data_fie", "rv_vfds_fie"}
    /\ vq_lock_in = NULL
    /\ vq_lock_in' = t
    /\ pc' = [pc EXCEPT ![t] = IF pc[t] = "rv_data_fie" THEN "rv_data_ret"
                               ELSE "rv_vfds_ret"]
    /\ UNCHANGED <<idr, vfds_lock, vq_lock_out, vfd, inbuf, in_used, out_vq,
                   out_kick, files, loc, iw, hist, budget>>

\* vfd_qentry_free_if_empty: vq_return_inbuf_locked, unlock, list_del, kfree
vfd_qentry_free(t) ==
    /\ pc[t] \in {"rv_data_ret", "rv_vfds_ret"}
    /\ LET p == loc[t].vfd
           i == loc[t].qi
       IN /\ inbuf' = vq_return_inbuf(inbuf, vfd[p].in_queue[i].buf)
          /\ vfd' = [vfd EXCEPT ![p].in_queue = RemoveAt(@, i)]
    /\ vq_lock_in' = NULL
    /\ pc' = [pc EXCEPT ![t] = IF pc[t] = "rv_data_ret" THEN "rv_data"
                               ELSE "rv_vfds"]
    /\ UNCHANGED <<idr, vfds_lock, vq_lock_out, in_used, out_vq, out_kick,
                   files, loc, iw, hist, budget>>

RECURSIVE AssignFds(_, _, _)
\* files after anon_inode_getfd has given the pointers ps the fds fs, in order
AssignFds(fl, ps, fs) ==
    IF ps = <<>> THEN fl
    ELSE AssignFds([fl EXCEPT ![Min(fs)] = Head(ps)], Tail(ps), fs \ {Min(fs)})

\* virtwl_ioctl_recv after virtwl_vfd_recv: an fd for every VFD received; when
\* anon_inode_getfd fails at the i-th, do_vfd_close(vfds[i]) and the free_vfds
\* loop, which closes every vfds[j] still set (the i-th among them) and every fd
\* already made (whose release closes its VFD)
virtwl_ioctl_recv_getfd(t) ==
    /\ pc[t] = "rv_getfd"
    /\ LET ps == loc[t].vr
       IN IF Len(ps) <= Cardinality(FreeFds)
          THEN /\ files' = AssignFds(files, ps, FreeFds)
               /\ Goto(t, "done", [loc[t] EXCEPT !.ret = "OK"])
          ELSE LET i == Cardinality(FreeFds) + 1
               IN /\ files' = files
                  /\ Goto(t, "close_start",
                          [loc[t] EXCEPT !.todo = <<ps[i]>> \o ps,
                                         !.sysret = "EMFILE"])
    /\ UNCHANGED <<idr, vfds_lock, vq_lock_in, vq_lock_out, vfd, inbuf, in_used,
                   out_vq, out_kick, iw, hist, budget>>

\* ------------------------------------------------------------- do_send
\* a send that takes no fd from the caller's list
NamedFds_none(fds) == <<>>

RECURSIVE NamedFds(_)
\* the fd list of do_send ends at the first negative fd
NamedFds(fds) ==
    IF fds = <<>> \/ Head(fds) < 0 THEN <<>>
    ELSE <<Head(fds)>> \o NamedFds(Tail(fds))

RECURSIVE do_send_check(_, _, _)
\* the validation loop of do_send over the named fds, first failure wins
do_send_check(fl, v, fds) ==
    IF fds = <<>> THEN "OK"
    ELSE LET fd == Head(fds)
         IN IF fd = CtlFd THEN "EINVAL"
            ELSE IF fd \notin DOMAIN fl \/ fl[fd] = NULL THEN "EBADFD"
            ELSE IF ~IsVfdPtr(fl[fd]) THEN "oops"
            ELSE IF v[fl[fd]].id = 0 THEN "EINVAL"
            ELSE do_send_check(fl, v, Tail(fds))

\* vfd_ids[i] = cpu_to_le32(vfds[i]->id)
SendIds(fl, v, fds) == [i \in 1..Len(fds) |-> v[fl[fds[i]]].id]

\* ioctl(fd, VIRTWL_IOCTL_SEND): do_send up to vq_queue_out
do_send(t, f, fds, nonblock) ==
    /\ pc[t] = "idle"
    /\ Spend("sys")
    /\ files[f] # NULL
    /\ LET p == files[f]
           named == NamedFds(fds)
           r == do_send_check(files, vfd, named)
           l == [NoLoc EXCEPT !.sys = "send", !.op = "send", !.file = f, !.vfd = p,
                              !.nonblock = nonblock, !.arg = fds]
       IN IF ~IsVfdPtr(p) \/ r = "oops"
          THEN Goto(t, "oops", l)
          ELSE IF r # "OK"
          THEN Goto(t, "done", [l EXCEPT !.ret = r])
          ELSE Goto(t, "qo_lock",
                    [l EXCEPT !.fds = named, !.id = vfd[p].id,
                              !.ids = SendIds(files, vfd, named)])
    /\ UNCHANGED <<idr, vfds_lock, vq_lock_in, vq_lock_out, vfd, inbuf, in_used,
                   out_vq, out_kick, files, iw, hist>>

\* wait_for_completion; ret = virtwl_resp_err(ctrl_send->hdr.type); fdput
do_send_wait(t) ==
    /\ pc[t] = "send_wait"
    /\ Completed(t)
    /\ Goto(t, "done", [loc[t] EXCEPT !.ret = virtwl_resp_err(out_vq[t].type)])
    /\ out_vq' = [out_vq EXCEPT ![t] = NoReq]
    /\ UNCHANGED <<idr, vfds_lock, vq_lock_in, vq_lock_out, vfd, inbuf, in_used,
                   out_kick, files, iw, hist, budget>>

\* ------------------------------------------------------ virtwl_vfd_mmap
\* the three tests of virtwl_vfd_mmap; lengths in pages, the sum taken in
\* unsigned long as the code takes it
virtwl_vfd_mmap_check(flags, size, vm_pgoff, vm_pages, vm_write) ==
    IF "MAP" \notin flags THEN "EACCES"
    ELSE IF vm_write /\ "WRITE" \notin flags THEN "EACCES"
    ELSE IF (vm_pages + vm_pgoff) % ULONG_PAGES > PAGE_ALIGN(size) \div PAGE_SIZE
         THEN "EINVAL"
    ELSE "OK"

\* mmap(fd, offset = vm_pgoff pages, length = vm_pages pages); on success
\* io_remap_pfn_range maps vm_pages pages starting at vfd->pfn
virtwl_vfd_mmap(t, f, vm_pgoff, vm_pages, vm_write) ==
    /\ pc[t] = "idle"
    /\ Spend("sys")
    /\ files[f] # NULL
    /\ LET p == files[f]
           l == [NoLoc EXCEPT !.sys = "mmap", !.op = "mmap", !.file = f, !.vfd = p,
                              !.id = vm_pgoff, !.len = vm_pages, !.nonblock = vm_write]
       IN IF ~IsVfdPtr(p)
          THEN Goto(t, "oops", l)
          ELSE /\ vfd[p].lock = NULL
               /\ LET r == virtwl_vfd_mmap_check(vfd[p].flags, vfd[p].size,
                                                 vm_pgoff, vm_pages, vm_write)
                  IN Goto(t, "done",
                          [l EXCEPT !.ret = r, !.size = vfd[p].size,
                                    !.map = IF r = "OK" THEN vm_pages ELSE 0])
    /\ UNCHANGED <<idr, vfds_lock, vq_lock_in, vq_lock_out, vfd, inbuf, in_used,
                   out_vq, out_kick, files, iw, hist>>

\* ------------------------------------------------- the whole system
NewTypes == {"CTX", "ALLOC", "BAD"}
NewSizes == {10}
AllocResults == Slots \cup {NULL, ERR_PTR_ENOMEM}
RecvLens == 0..MaxData
SendFdLists == [1..VIRTWL_SEND_MAX_ALLOCS -> Fds \cup {CtlFd, -1}]
MmapPgoffs == {0, 1, ULONG_PAGES - 1}
MmapPages == 1..2

\* what the host may write into a receive buffer
HostMsgs ==
    {MsgNew(HostId, PAGE_SIZE, {"MAP"}),
     MsgRecv(1, <<HostId>>, <<1>>),
     MsgRecv(1, <<>>, <<>>),
     MsgOther}

\* threads are interchangeable: the next system call is made by the
\* lowest-numbered thread that is not inside one
Caller(t) == t = Min({u \in Threads : pc[u] = "idle"} \cup {t})

Syscall(t) ==
    \/ \E type \in NewTypes, size \in NewSizes, nb \in BOOLEAN, p \in AllocResults :
          do_new_alloc(t, type, size, nb, p)
    \/ \E f \in Fds, len \in RecvLens, nb \in BOOLEAN : virtwl_ioctl_recv(t, f, len, nb)
    \/ \E f \in Fds, fds \in SendFdLists, nb \in BOOLEAN : do_send(t, f, fds, nb)
    \/ \E f \in Fds, o \in MmapPgoffs, n \in MmapPages, w \in BOOLEAN :
          virtwl_vfd_mmap(t, f, o, n, w)
    \/ \E f \in Fds : virtwl_vfd_release(t, f)

\* the steps of create, with those of vq_queue_out and virtwl_vfd_lock_unlink
StepNew(t) ==
    \/ do_new_tbl(t)
    \/ do_new_idr(t)
    \/ do_new_setid(t)
    \/ do_new_wait(t)
    \/ virtwl_ioctl_new_getfd(t)
    \/ vq_queue_out_lock(t)
    \/ vq_queue_out_add(t)
    \/ virtwl_vfd_lock_unlink_tbl(t)
    \/ virtwl_vfd_lock_unlink_vfd(t)
    \/ SyscallReturn(t)

\* the steps of close
StepClose(t) ==
    \/ do_vfd_close_start(t)
    \/ do_vfd_close_wait(t)
    \/ virtwl_vfd_remove_vq(t)
    \/ virtwl_vfd_remove_flush(t)
    \/ do_vfd_close_ret(t)

StepNewClose(t) == StepNew(t) \/ StepClose(t)

\* the steps of a create that fails after registration
StepNewFail(t) ==
    \/ do_new_remove(t)
    \/ do_new_free(t)

\* the steps of receive
StepRecv(t) ==
    \/ virtwl_vfd_recv_tbl(t)
    \/ virtwl_vfd_recv_vfd(t)
    \/ virtwl_vfd_recv_loop(t)
    \/ vfd_out_locked(t)
    \/ vfd_out_vfds_locked(t)
    \/ vfd_qentry_free_lock(t)
    \/ vfd_qentry_free(t)

Step(t) ==
    \/ StepNewClose(t)
    \/ StepNewFail(t)
    \/ StepRecv(t)
    \/ virtwl_ioctl_recv_getfd(t)
    \/ \E sig \in BOOLEAN : virtwl_vfd_recv_wait(t, sig)
    \/ vq_queue_out_wait(t)
    \/ do_send_wait(t)

\* the inbound work item handling a data push
InWorkRecv ==
    \/ vq_in_work_get(NULL)
    \/ vq_handle_recv_find
    \/ vq_handle_recv_add
    \/ vq_dispatch_return

InWork ==
    \/ \E p \in AllocResults : vq_in_work_get(p)
    \/ vq_handle_new_idr
    \/ vq_handle_new_set
    \/ vq_handle_recv_find
    \/ vq_handle_recv_add
    \/ vq_dispatch_return

HostAcks ==
    \E t \in Threads : \E resp \in NewResponses \cup SendResponses : HostComplete(t, resp)

Next ==
    \/ \E t \in 1..ActiveThreads : Caller(t) /\ Syscall(t)
    \/ \E t \in 1..ActiveThreads : Step(t)
    \/ InWork
    \/ vq_out_work_handler
    \/ HostAcks
    \/ \E m \in HostMsgs : HostPush(NextBuf, m)

Spec == Init /\ [][Next]_vars

\* ------------------------------------------- one thread, handles passed
\* one guest thread creates contexts, receives and closes while the host
\* pushes new handles and messages that name handles
SeqMsgs ==
    {MsgNew(HostId, PAGE_SIZE, {"MAP"}),
     MsgRecv(1, <<HostId>>, <<>>),
     MsgRecv(1, <<1>>, <<>>)}

InitSeq == InitWith(SeqSys, SeqPush, 0, FALSE)

NextSeq ==
    \/ \E p \in Slots : do_new_alloc(1, "CTX", 0, FALSE, p)
    \/ \E f \in Fds : virtwl_ioctl_recv(1, f, 1, TRUE)
    \/ \E f \in Fds : virtwl_vfd_release(1, f)
    \/ StepNewClose(1)
    \/ StepNewFail(1)
    \/ StepRecv(1)
    \/ virtwl_ioctl_recv_getfd(1)
    \/ \E p \in Slots \cup {NULL} : vq_in_work_get(p)
    \/ vq_handle_new_idr
    \/ vq_handle_new_set
    \/ vq_handle_recv_find
    \/ vq_handle_recv_add
    \/ vq_dispatch_return
    \/ vq_out_work_handler
    \/ HostAcks
    \/ \E m \in SeqMsgs : HostPush(NextBuf, m)

SpecSeq == InitSeq /\ [][NextSeq]_vars

\* --------------------------------------------- one thread, data received
\* one guest thread creates a context and receives with every capacity while
\* the host pushes data to it; the byte streams are recorded
RecvMsgs == {MsgRecv(1, <<>>, d) : d \in {<<>>, <<1>>, <<1, 2>>}}

InitRecv == InitWith(RecvSys, RecvPush, 0, TRUE)

NextRecv ==
    \/ \E p \in Slots : do_new_alloc(1, "CTX", 0, FALSE, p)
    \/ \E f \in Fds, len \in RecvLens, nb \in BOOLEAN : virtwl_ioctl_recv(1, f, len, nb)
    \/ \E f \in Fds : virtwl_vfd_release(1, f)
    \/ StepNewClose(1)
    \/ StepNewFail(1)
    \/ StepRecv(1)
    \/ virtwl_ioctl_recv_getfd(1)
    \/ \E sig \in BOOLEAN : virtwl_vfd_recv_wait(1, sig)
    \/ InWorkRecv
    \/ vq_out_work_handler
    \/ HostAcks
    \/ \E m \in RecvMsgs : HostPush(NextBuf, m)

SpecRecv == InitRecv /\ [][NextRecv]_vars

\* ------------------------------------------ the outbound queue contended
\* every thread creates contexts and sends data without handles; the host
\* only acknowledges
NoFds == [i \in 1..VIRTWL_SEND_MAX_ALLOCS |-> -1]

InitOut == InitWith(OutSys, 0, 0, FALSE)

NextOut ==
    \/ \E t \in Threads, nb \in BOOLEAN, p \in Slots :
          Caller(t) /\ do_new_alloc(t, "CTX", 0, nb, p)
    \/ \E t \in Threads, f \in Fds, nb \in BOOLEAN :
          Caller(t) /\ do_send(t, f, NoFds, nb)
    \/ \E t \in Threads : StepNew(t)
    \/ \E t \in Threads : StepNewFail(t)
    \/ \E t \in Threads : vq_queue_out_wait(t)
    \/ \E t \in Threads : do_send_wait(t)
    \/ vq_out_work_handler
    \/ HostAcks

SpecOut == InitOut /\ [][NextOut]_vars

\* ------------------------------------------- close under a full queue
\* two threads create a context, send on it and close it; the host
\* acknowledges every request in the end, every system call in progress keeps
\* running, the outbound work item runs when there is something to reap, and
\* the timeout of wait_event_timeout ends when no slot has become free
InitClose == InitWith(CloseSys, 0, 0, FALSE)

Running(t) ==
    \/ StepNew(t)
    \/ StepNewFail(t)
    \/ StepClose(t)
    \/ vq_queue_out_wait(t)
    \/ do_send_wait(t)

NextClose ==
    \/ \E t \in 1..ActiveThreads, p \in Slots :
          Caller(t) /\ do_new_alloc(t, "CTX", 0, FALSE, p)
    \/ \E t \in 1..ActiveThreads, f \in Fds : Caller(t) /\ do_send(t, f, NoFds, FALSE)
    \/ \E t \in 1..ActiveThreads, f \in Fds : Caller(t) /\ virtwl_vfd_release(t, f)
    \/ \E t \in 1..ActiveThreads : Running(t)
    \/ vq_out_work_handler
    \/ HostAcks

SpecClose ==
    /\ InitClose
    /\ [][NextClose]_vars
    /\ \A t \in 1..ActiveThreads : WF_vars(Running(t))
    /\ WF_vars(vq_out_work_handler)
    /\ WF_vars(HostAcks)

\* ------------------------------------------------ create, every answer
\* two threads create contexts and allocations, blocking or not, and the host
\* answers a create with any of its responses
InitNew == InitWith(NewSys, 0, 0, FALSE)

NextNew ==
    \/ \E t \in 1..ActiveThreads, type \in {"CTX", "ALLOC"}, size \in NewSizes,
          nb \in BOOLEAN, p \in Slots :
          Caller(t) /\ do_new_alloc(t, type, size, nb, p)
    \/ \E t \in 1..ActiveThreads : StepNew(t)
    \/ \E t \in 1..ActiveThreads : StepNewFail(t)
    \/ \E t \in 1..ActiveThreads : vq_queue_out_wait(t)
    \/ vq_out_work_handler
    \/ \E t \in Threads, resp \in AllNewResponses : HostWrites(t, resp)

SpecNew == InitNew /\ [][NextNew]_vars

\* --------------------------------------------- one thread, drain passes
\* one guest thread creates a context and receives, with room for no byte or
\* for one, while the host pushes messages with and without payload and
\* handles; every step that can be taken is taken in the end
DrainMsgs ==
    {MsgRecv(1, <<>>, <<>>),
     MsgRecv(1, <<>>, <<1>>),
     MsgRecv(1, <<VIRTWL_MAX_ALLOC - 1>>, <<>>)}

InitDrain == InitWith(DrainSys, DrainPush, 0, FALSE)

NextDrain ==
    \/ \E p \in Slots : do_new_alloc(1, "CTX", 0, FALSE, p)
    \/ \E f \in Fds, len \in {0, 1}, nb \in BOOLEAN : virtwl_ioctl_recv(1, f, len, nb)
    \/ StepNew(1)
    \/ StepNewFail(1)
    \/ StepRecv(1)
    \/ virtwl_ioctl_recv_getfd(1)
    \/ \E sig \in BOOLEAN : virtwl_vfd_recv_wait(1, sig)
    \/ InWorkRecv
    \/ vq_out_work_handler
    \/ HostAcks
    \/ \E m \in DrainMsgs : HostPush(NextBuf, m)

SpecDrain ==
    /\ InitDrain
    /\ [][NextDrain]_vars
    /\ WF_vars(StepRecv(1))
    /\ WF_vars(StepNew(1) \/ StepNewFail(1))
    /\ WF_vars(InWorkRecv)
    /\ WF_vars(vq_out_work_handler)
    /\ WF_vars(HostAcks)

\* ------------------------------------------ one thread, handle lists
\* one guest thread creates contexts, receives and closes while the host
\* pushes messages that carry one or two handle ids, known to the table or not
HandMsgs ==
    {MsgRecv(1, <<VIRTWL_MAX_ALLOC - 1, 1>>, <<>>),
     MsgRecv(1, <<1>>, <<>>),
     MsgRecv(1, <<>>, <<1>>)}

InitHand == InitWith(HandSys, HandPush, 0, FALSE)

NextHand ==
    \/ \E p \in Slots : do_new_alloc(1, "CTX", 0, FALSE, p)
    \/ \E f \in Fds, len \in {0, 1} : virtwl_ioctl_recv(1, f, len, TRUE)
    \/ \E f \in Fds : virtwl_vfd_release(1, f)
    \/ StepNewClose(1)
    \/ StepNewFail(1)
    \/ StepRecv(1)
    \/ virtwl_ioctl_recv_getfd(1)
    \/ InWorkRecv
    \/ vq_out_work_handler
    \/ HostAcks
    \/ \E m \in HandMsgs : HostPush(NextBuf, m)

SpecHand == InitHand /\ [][NextHand]_vars

\* ------------------------------------- two threads, one handle passed twice
\* one guest thread creates a context, receives and closes while a second
\* thread receives on the files the first one was given; the host pushes
\* messages that carry the context's own id as a handle
LockMsgs == {MsgRecv(1, <<1>>, <<>>)}

InitLock == InitWith(LockSys, LockPush, 0, FALSE)

NextLock ==
    \/ \E p \in Slots : do_new_alloc(1, "CTX", 0, FALSE, p)
    \/ \E t \in 1..ActiveThreads, f \in Fds : virtwl_ioctl_recv(t, f, 1, TRUE)
    \/ \E f \in Fds : virtwl_vfd_release(1, f)
    \/ StepNewClose(1)
    \/ StepNewFail(1)
    \/ \E t \in 1..ActiveThreads : StepRecv(t)
    \/ \E t \in 1..ActiveThreads : virtwl_ioctl_recv_getfd(t)
    \/ SyscallReturn(ActiveThreads)
    \/ InWorkRecv
    \/ vq_out_work_handler
    \/ HostAcks
    \/ \E m \in LockMsgs : HostPush(NextBuf, m)

SpecLock == InitLock /\ [][NextLock]_vars

\* ================================================================ claims
\* the IDs the handle table holds an entry for
Registered == {k \in IdSpace : idr[k] # NULL}

\* ---------------------------------------------------------------- C1
\* C1: no two VFDs registered in the handle table share an ID: distinct
\* table entries hold distinct VFDs, and the id of a registered VFD, once it
\* has been stored, is the ID the VFD was registered under.
C1_UniqueIds ==
    \A k1 \in Registered :
        /\ IsVfdPtr(idr[k1]) => vfd[idr[k1]].id \in {0, k1}
        /\ \A k2 \in Registered : k1 # k2 => idr[k1] # idr[k2]

\* ---------------------------------------------------------------- C2
\* C2: once virtwl_vfd_remove has freed a VFD no lookup returns it: every
\* entry of the handle table holds a VFD whose memory has not been freed.
C2_NoFreedVfdInTable ==
    \A k \in Registered : IsVfdPtr(idr[k]) => vfd[idr[k]].alloc

\* ---------------------------------------------------------------- C3
RECURSIVE Remaining(_)
\* the payload bytes of a pending queue that no receive has returned yet
Remaining(q) ==
    IF q = <<>> THEN <<>>
    ELSE LET d == inbuf[Head(q).buf].msg.data
         IN SubSeq(d, Head(q).data_offset + 1, Len(d)) \o Remaining(Tail(q))

\* thread t is inside a drain of the VFD registered as id, the locks held
Draining(t, id) ==
    /\ pc[t] \in {"rv_loop", "rv_data", "rv_data_fie", "rv_data_ret", "rv_vfds",
                  "rv_vfds_fie", "rv_vfds_ret"}
    /\ idr[id] = loc[t].vfd

\* the bytes the receive calls in progress have copied out and not yet returned
Copied(id) ==
    IF \E t \in Threads : Draining(t, id)
    THEN loc[CHOOSE t \in Threads : Draining(t, id)].out
    ELSE <<>>

\* thread t has finished a drain pass and is about to leave virtwl_vfd_recv
DrainDone(t) ==
    pc[t] = "rv_loop" /\ (loc[t].rd # 0 \/ loc[t].vr # <<>>)

\* C3: the bytes returned by the receive calls on a VFD, followed by the bytes
\* still queued, are the pushed payloads in arrival order (none lost,
\* duplicated or reordered), and a receive returns as many bytes as its
\* capacity unless the queue holds fewer.
C3_PartialReads ==
    /\ idr[RecvTarget] # NULL =>
          hist.sent = hist.rcvd \o Copied(RecvTarget)
                                \o Remaining(vfd[idr[RecvTarget]].in_queue)
    /\ \A t \in Threads :
          DrainDone(t) =>
             /\ loc[t].rd = Len(loc[t].out)
             /\ loc[t].rd <= loc[t].len
             /\ loc[t].rd < loc[t].len => Remaining(vfd[loc[t].vfd].in_queue) = <<>>

\* a receive of capacity 1 has returned the second byte of a two-byte payload
\* whose first byte an earlier receive returned
C3_Witness ==
    \E t \in Threads :
        /\ pc[t] = "rv_getfd"
        /\ loc[t].len = 1
        /\ loc[t].out = <<2>>
        /\ hist.rcvd = <<1, 2>>
        /\ hist.sent = <<1, 2>>

\* ---------------------------------------------------------------- C4
\* both cursors of the entry have reached the totals its header declares
AtTotals(e) ==
    /\ e.data_offset = Len(inbuf[e.buf].msg.data)
    /\ e.vfd_offset = Len(inbuf[e.buf].msg.vfds)

\* C4: an entry is returned to the transport if and only if both its cursors
\* have reached their totals: the entry a drain is releasing is at its totals,
\* and once a drain pass has run over a queue no entry at its totals is left
\* in it.
C4_ReleasedIffDrained ==
    \A t \in Threads :
        /\ pc[t] \in {"rv_data_fie", "rv_data_ret", "rv_vfds_fie", "rv_vfds_ret"} =>
              AtTotals(vfd[loc[t].vfd].in_queue[loc[t].qi])
        /\ (pc[t] = "rv_loop" /\ loc[t].qi > 0) =>
              \A i \in 1..Len(vfd[loc[t].vfd].in_queue) :
                  ~AtTotals(vfd[loc[t].vfd].in_queue[i])

\* ---------------------------------------------------------------- C5
\* thread t takes a step
Steps(t) == pc'[t] # pc[t]

\* C5: a create or send called with O_NONBLOCK that finds no free slot in the
\* outbound queue leaves vq_queue_out at once with EAGAIN, without sleeping,
\* without adding a request and without kicking the host, and EAGAIN is what
\* the system call returns.
C5_NonblockFailsFast ==
    [][\A t \in Threads :
          /\ (/\ pc[t] = "qo_add"
              /\ Steps(t)
              /\ loc[t].nonblock
              /\ loc[t].op \in {"new", "send"}
              /\ num_free = 0)
             => /\ loc'[t].ret = "EAGAIN"
                /\ pc'[t] \in {"new_remove", "done"}
                /\ out_vq' = out_vq
                /\ out_kick' = out_kick
          /\ (/\ loc[t].ret = "EAGAIN"
              /\ loc[t].sys \in {"new", "send"}
              /\ pc'[t] # "idle")
             => loc'[t].ret = "EAGAIN"]_vars

\* a send with O_NONBLOCK has returned EAGAIN while another thread's request
\* holds the only slot
C5_Witness ==
    \E t \in Threads :
        /\ pc[t] = "done"
        /\ loc[t].sys = "send"
        /\ loc[t].nonblock
        /\ loc[t].ret = "EAGAIN"
        /\ num_free = 0

\* ---------------------------------------------------------------- C6
\* thread t adds its request to the outbound queue in this step
Adds(t) == out_vq[t].st = "none" /\ out_vq'[t].st = "avail"

\* caller t sleeps, or has slept and is trying again, in vq_queue_out
Blocked(t) == \E i \in 1..Len(hist.waitq) : hist.waitq[i] = t

\* C6: a blocking caller that finds no free slot waits, and once a slot is
\* free its submission is queued; blocked callers obtain slots in the order
\* in which they started waiting: a blocked caller whose request is added is
\* the one that has been blocked longest.
C6_FifoWaiters ==
    [][\A t \in Threads :
          (Blocked(t) /\ Adds(t)) => t = Head(hist.waitq)]_vars

\* ---------------------------------------------------------------- C7
\* the buffers retained in the pending queue q
QueuedBufs(q) == {q[i].buf : i \in 1..Len(q)}

\* C7: the flush step of close returns every buffer retained in the VFD's
\* pending queue to the inbound transport, whatever the entries' cursors, and
\* only then frees the VFD: after the step the freed VFD's queue is empty,
\* each buffer it held is posted to the host again, and no other buffer has
\* changed.
C7_CloseFlushesAll ==
    [][\A t \in Threads :
          (pc[t] = "rm_flush" /\ Steps(t))
          => LET p == loc[t].vfd
                 q == vfd[p].in_queue
             IN /\ \A b \in QueuedBufs(q) : inbuf'[b].where = "avail"
                /\ \A b \in Bufs \ QueuedBufs(q) : inbuf'[b] = inbuf[b]
                /\ vfd'[p].in_queue = <<>>
                /\ ~vfd'[p].alloc
                /\ pc'[t] = "close_ret"]_vars

\* a close has flushed two pending entries after a receive had read part of
\* the stream
C7_Witness ==
    /\ pc[1] = "close_ret"
    /\ loc[1].sys = "release"
    /\ hist.flushed = 2
    /\ \A b \in Bufs : inbuf[b].where = "avail"
    /\ budget.sys < RecvSys - 2

\* ---------------------------------------------------------------- C8
\* what map(offset, length, write) is to return, offset and length in pages,
\* with offset + length taken as the number it is
MapExpected(flags, size, vm_pgoff, vm_pages, vm_write) ==
    IF "MAP" \notin flags THEN "EACCES"
    ELSE IF vm_write /\ "WRITE" \notin flags THEN "EACCES"
    ELSE IF vm_pgoff + vm_pages > PAGE_ALIGN(size) \div PAGE_SIZE THEN "EINVAL"
    ELSE "OK"

\* C8: map(offset, length, write) on a VFD returns EACCES when the VFD lacks
\* the mappable flag, EACCES when write is requested and the VFD lacks the
\* writable flag, EINVAL when offset + length exceeds the page-aligned size,
\* and establishes the mapping exactly when none of the three holds; for an
\* allocation of size 10 acknowledged with size 4096, one page at offset 0
\* maps and two pages at offset 0 do not.
C8_MapChecked ==
    [][\A t \in Threads :
          (pc[t] = "idle" /\ pc'[t] = "done" /\ loc'[t].sys = "mmap")
          => LET l == loc'[t]
                 e == MapExpected(vfd[l.vfd].flags, vfd[l.vfd].size,
                                  l.id, l.len, l.nonblock)
             IN /\ l.ret = e
                /\ (l.map > 0) = (e = "OK")]_vars

\* ---------------------------------------------------------------- C9
\* the caller's fd list names fd at place i: no earlier place ends the list
Names(arg, i) == \A j \in 1..i : arg[j] >= 0

\* fd is no open handle of this device: the control file, no open file, or a
\* VFD that has no ID
InvalidHandle(fd) ==
    \/ fd = CtlFd
    \/ files[fd] = NULL
    \/ IsVfdPtr(files[fd]) /\ vfd[files[fd]].id = 0

\* C9: a send whose fd list names an invalid handle returns EBADFD or EINVAL
\* in the step that examines the list: no request is added, the host is not
\* kicked, and the handle table, the VFDs with their pending queues and the
\* receive buffers are as before.
C9_InvalidHandleRejected ==
    [][\A t \in Threads :
          (/\ pc[t] = "idle"
           /\ pc'[t] # "idle"
           /\ loc'[t].sys = "send"
           /\ \E i \in 1..Len(loc'[t].arg) :
                 Names(loc'[t].arg, i) /\ InvalidHandle(loc'[t].arg[i]))
          => /\ pc'[t] = "done"
             /\ loc'[t].ret \in {"EBADFD", "EINVAL"}
             /\ out_vq' = out_vq
             /\ out_kick' = out_kick
             /\ idr' = idr
             /\ vfd' = vfd
             /\ inbuf' = inbuf]_vars

\* a send that named the control file's fd has returned EINVAL
C9_Witness ==
    \E t \in Threads :
        /\ pc[t] = "done"
        /\ loc[t].sys = "send"
        /\ loc[t].arg[1] = CtlFd
        /\ loc[t].ret = "EINVAL"

\* --------------------------------------------------------------- C10
\* thread t's close request is on its way: do_vfd_close is between building
\* the request and the return of wait_for_completion
CloseInFlight(t) ==
    /\ loc[t].op = "close"
    /\ pc[t] \in {"qo_lock", "qo_add", "qo_wait", "close_wait"}

\* C10: while a close is in flight its steps leave the handle table, the VFD
\* with its pending queue and the receive buffers as they are; the teardown
\* starts only from the wait for the acknowledgment, once the acknowledgment
\* is there, and runs in the order unlink, flush, free: the unlink step keeps
\* the VFD allocated and its queue and the buffers intact, and the VFD is
\* freed only in the flush step.
C10_TeardownAfterAck ==
    [][\A t \in Threads :
          /\ (CloseInFlight(t) /\ Steps(t))
             => idr' = idr /\ vfd' = vfd /\ inbuf' = inbuf
          /\ (loc[t].op = "close" /\ Steps(t) /\ pc'[t] = "lu_tbl")
             => pc[t] = "close_wait" /\ Completed(t)
          /\ (loc[t].op = "close" /\ Steps(t) /\ pc[t] \in {"lu_tbl", "lu_vfd", "rm_vq"})
             => LET p == loc[t].vfd
                IN /\ inbuf' = inbuf
                   /\ vfd'[p].alloc = vfd[p].alloc
                   /\ vfd'[p].in_queue = vfd[p].in_queue
                   /\ pc[t] # "lu_vfd" => idr' = idr
                   /\ pc[t] = "lu_vfd" => pc'[t] = "rm_vq"
                   /\ pc[t] = "rm_vq" => pc'[t] = "rm_flush"
          /\ (loc[t].op = "close" /\ Steps(t) /\ IsVfdPtr(loc[t].vfd)
                /\ vfd[loc[t].vfd].alloc /\ ~vfd'[loc[t].vfd].alloc)
             => pc[t] = "rm_flush"]_vars

\* a close is in flight, not yet acknowledged, and the inbound worker is
\* looking up a host push for the same ID: the lookup finds the VFD
C10_Witness ==
    \E t \in Threads :
        /\ pc[t] = "close_wait"
        /\ ~Completed(t)
        /\ iw.pc = "recv_tbl"
        /\ inbuf[iw.buf].msg.vfd_id = loc[t].id
        /\ idr_find(idr, loc[t].id) = loc[t].vfd
        /\ vfd[loc[t].vfd].alloc

\* --------------------------------------------------------------- C11
\* the last reference to the file of VFD p has been dropped: virtwl_vfd_release
\* is about to close it
Released(p) ==
    \E t \in Threads :
        /\ pc[t] = "close_start"
        /\ loc[t].sys = "release"
        /\ Head(loc[t].todo) = p

\* C11: every handle whose last reference is dropped is in the end removed
\* from the handle table and freed, given a host that acknowledges every
\* request in the end, also when the outbound queue is full at the moment of
\* the close.
C11_CloseEventuallyFrees ==
    \A p \in Slots : Released(p) ~> (~vfd[p].alloc /\ \A k \in IdSpace : idr[k] # p)

\* --------------------------------------------------------------- C12
\* the failure kind that corresponds to a response of the host
FailureKind(type) ==
    CASE type = "RESP_ERR" -> "ENODEV"
      [] type = "RESP_OUT_OF_MEMORY" -> "ENOMEM"
      [] type \in {"RESP_INVALID_ID", "RESP_INVALID_TYPE"} -> "EINVAL"
      [] OTHER -> "OK"

\* thread t is in the part of do_new that undoes a registered create
Undoing(t) ==
    /\ loc[t].op = "new"
    /\ pc[t] \in {"new_remove", "lu_tbl", "lu_vfd", "new_free"}

\* C12: a create that fails after its VFD was registered, by an error answer
\* of the host or by a failed submission, takes out of the handle table the
\* one entry it had put in, so that the table is what it was before the call,
\* frees the VFD, produces no guest handle and returns the failure kind of
\* its cause; a
\* create the host acknowledges takes the VFD's size, mapping offset and flags
\* from the acknowledgment and leaves the table as it is.
C12_FailedCreateUndone ==
    [][\A t \in Threads :
          /\ (pc[t] = "new_wait" /\ Steps(t))
             => LET p == loc[t].vfd
                    ack == out_vq[t]
                IN IF FailureKind(ack.type) = "OK"
                   THEN /\ pc'[t] = "new_getfd"
                        /\ vfd'[p].size = ack.size
                        /\ vfd'[p].pfn = ack.pfn
                        /\ vfd'[p].flags = ack.flags
                        /\ idr' = idr
                   ELSE /\ pc'[t] = "new_remove"
                        /\ loc'[t].ret = FailureKind(ack.type)
          /\ (loc[t].op = "new" /\ pc[t] \in {"qo_add", "qo_wait"} /\ Steps(t)
                /\ pc'[t] \notin {"qo_lock", "qo_wait", "new_wait"})
             => pc'[t] = "new_remove" /\ loc'[t].ret \in {"EAGAIN", "EBUSY"}
          /\ (Undoing(t) /\ Steps(t))
             => /\ files' = files
                /\ loc'[t].file = 0
                /\ loc'[t].ret = loc[t].ret
                /\ pc'[t] \in {"lu_tbl", "lu_vfd", "new_free", "done"}
          /\ (loc[t].op = "new" /\ pc[t] = "new_idr" /\ Steps(t)
                /\ pc'[t] = "new_setid")
             => /\ idr[loc'[t].id] = NULL
                /\ idr' = [idr EXCEPT ![loc'[t].id] = loc[t].vfd]
          /\ (Undoing(t) /\ Steps(t))
             => idr' = IF pc[t] = "lu_vfd" THEN [idr EXCEPT ![loc[t].id] = NULL]
                       ELSE idr
          /\ (Undoing(t) /\ Steps(t) /\ pc'[t] = "done")
             => /\ ~vfd'[loc[t].vfd].alloc
                /\ idr'[loc[t].id] # loc[t].vfd]_vars

\* ---------------------------------------------------------------- C13
\* the thread or work item o takes vi->vfds_lock in this step
TakesTable(o) == vfds_lock # o /\ vfds_lock' = o

\* the VFDs whose lock o holds
HoldsVfd(o) == {p \in Slots : vfd[p].alloc /\ vfd[p].lock = o}

LockOwners == Threads \cup {InWorker}

\* C13, as stated: no thread takes the handle-table lock while it holds a VFD
\* lock, in create, inbound dispatch, receive and close; a failed create has
\* released its VFD lock before it takes the table lock to unlink.
C13_TableBeforeVfd ==
    [][\A o \in LockOwners : TakesTable(o) => HoldsVfd(o) = {}]_vars

\* C13, amended: the one place where the handle-table lock is taken with a
\* VFD lock held is the registration step of a create, which holds the lock
\* of the VFD it has just allocated and of no other; everywhere else, the
\* unlink of a failed create included, the table lock is taken with no VFD
\* lock held.
C13_TableBeforeVfdButFresh ==
    [][\A o \in LockOwners :
          TakesTable(o)
          => \/ HoldsVfd(o) = {}
             \/ /\ o \in Threads
                /\ loc[o].op = "new"
                /\ pc[o] = "new_tbl"
                /\ HoldsVfd(o) = {loc[o].vfd}]_vars

\* a failed create holds the table lock to unlink, with no VFD lock, while
\* another create holds the lock of its fresh VFD and is about to take the
\* table lock
C13_Witness ==
    \E t, u \in Threads :
       /\ loc[t].op = "new" /\ pc[t] = "lu_vfd"
       /\ vfds_lock = t /\ HoldsVfd(t) = {}
       /\ loc[u].op = "new" /\ pc[u] = "new_tbl"
       /\ HoldsVfd(u) = {loc[u].vfd}

\* ---------------------------------------------------------------- C14
\* the thread o takes a transport lock (vi->vq_locks[]) in this step
TakesTransport(o) ==
    \/ vq_lock_in # o /\ vq_lock_in' = o
    \/ vq_lock_out # o /\ vq_lock_out' = o

\* the thread or work item o takes a VFD lock in this step
TakesVfd(o) == \E p \in Slots : vfd[p].lock # o /\ vfd'[p].lock = o

HoldsTransport(o) == vq_lock_in = o \/ vq_lock_out = o

\* C14, as stated: a thread that takes the inbound or the outbound queue lock
\* holds no VFD lock, in receive (giving back a drained entry), in close
\* (flushing the pending queue) and in create (submitting the request).
C14_TransportOutsideVfd ==
    [][\A o \in LockOwners : TakesTransport(o) => HoldsVfd(o) = {}]_vars

\* C14, amended: the transport locks are the innermost locks. A thread that
\* holds one takes neither the table lock nor a VFD lock; a transport lock is
\* taken with a VFD lock held in exactly three places, and there it is the
\* lock of the VFD the call works on: receive giving back a drained entry,
\* close flushing the pending queue, create submitting its request. Send and
\* the close request are submitted with no VFD lock held.
C14_TransportInnermost ==
    [][\A o \in LockOwners :
          /\ (TakesTable(o) \/ TakesVfd(o)) => ~HoldsTransport(o)
          /\ (TakesTransport(o) /\ o \in Threads)
             => IF \/ pc[o] \in {"rv_data_fie", "rv_vfds_fie", "rm_vq"}
                   \/ pc[o] = "qo_lock" /\ loc[o].op = "new"
                THEN HoldsVfd(o) = {loc[o].vfd}
                ELSE HoldsVfd(o) = {}]_vars

\* a close is about to flush the pending queue of its VFD, holding the
\* inbound queue lock, which it took with the VFD lock held
C14_Witness ==
    \E t \in Threads :
       /\ pc[t] = "rm_flush"
       /\ vq_lock_in = t
       /\ HoldsVfd(t) = {loc[t].vfd}
       /\ vfd[loc[t].vfd].in_queue # <<>>

\* ---------------------------------------------------------------- C15
\* the memory of the VFD in slot p is freed in this step
Freed(p) == vfd[p].alloc /\ ~vfd'[p].alloc

\* C15: whenever the memory of a VFD is freed, by close, by a failed create
\* or by a failed host push, no entry of the handle table points to it and its
\* pending queue is empty, every retained buffer having gone back to the
\* inbound queue.
C15_FreedUnlinkedAndFlushed ==
    [][\A p \in Slots :
          Freed(p) => /\ \A k \in IdSpace : idr'[k] # p
                      /\ vfd'[p].in_queue = <<>>
                      /\ \A i \in 1..Len(vfd[p].in_queue) :
                            inbuf'[vfd[p].in_queue[i].buf].where # "queued"]_vars

\* ---------------------------------------------------------------- C16
\* the receive call of thread t returns without data in this step
ReturnsEmpty(t) ==
    /\ loc[t].op = "recv"
    /\ Steps(t)
    /\ pc'[t] = "done"
    /\ loc'[t].ret \in {"EAGAIN", "ERESTARTSYS"}

\* the pending queues, with the cursors of their entries
Queues == [p \in Slots |-> vfd[p].in_queue]

IdsLeft(e) == Len(inbuf[e.buf].msg.vfds) - e.vfd_offset

\* C17: handle ids leave a pending queue in arrival order, every slot once.
\* A handle id of an entry is taken only when every earlier entry of the
\* queue has none left; one pass over an entry takes its ids from the cursor
\* on, moves the cursor past exactly those, hands over the VFD of each id the
\* table knows, in order, and drops the others without an error; a call
\* hands over at most as many handles as it has room for.
C17_HandlesInOrder ==
    [][\A t \in Threads :
          (pc[t] = "rv_vfds" /\ Steps(t))
          => LET q == vfd[loc[t].vfd].in_queue
                 i == loc[t].qi
                 q2 == vfd'[loc[t].vfd].in_queue
             IN /\ Len(loc'[t].vr) <= VIRTWL_SEND_MAX_ALLOCS
                /\ loc'[t].ret = loc[t].ret
                /\ IF i > Len(q) \/ q2 = q
                   THEN loc'[t].vr = loc[t].vr
                   ELSE LET n == q2[i].vfd_offset - q[i].vfd_offset
                            ids == inbuf[q[i].buf].msg.vfds
                        IN /\ n > 0
                           /\ q2 = [q EXCEPT ![i].vfd_offset = @ + n]
                           /\ \A k \in 1..(i - 1) : IdsLeft(q[k]) = 0
                           /\ loc'[t].vr = loc[t].vr \o
                                 FoundVfds(idr, SubSeq(ids, q[i].vfd_offset + 1,
                                                       q[i].vfd_offset + n))]_vars

\* ---------------------------------------------------------------- C18
\* the inbound work item takes a step
WorkSteps == iw' # iw

\* C18: the work item that handles a host message of type VFD_NEW always ends
\* by giving the receive buffer back to the inbound queue. It registers a VFD
\* only if the id has the host bit, has not the illegal bit and is free in
\* the table: then the table gets exactly one new entry, at the id of the
\* message, and the VFD gets the id, size, pfn and flags of the message.
\* Otherwise the table and the existing VFDs stay as they are.
C18_HostNewHandled ==
    [][/\ (iw.pc = "idle" /\ WorkSteps /\ inbuf[iw'.buf].msg.type = "CMD_VFD_NEW")
          => /\ idr' = idr
             /\ IF vq_handle_new_rejects(inbuf[iw'.buf].msg.vfd_id)
                THEN iw'.pc = "ret" /\ vfd' = vfd
                ELSE iw'.pc = "new_tbl"
       /\ (iw.pc = "new_tbl" /\ WorkSteps)
          => LET id == inbuf[iw.buf].msg.vfd_id
             IN IF idr[id] # NULL
                THEN /\ iw'.pc = "ret"
                     /\ idr' = idr
                     /\ \A p \in Slots \ {iw.vfd} : vfd'[p] = vfd[p]
                     /\ ~vfd'[iw.vfd].alloc
                ELSE /\ iw'.pc = "new_set"
                     /\ IsVfdPtr(iw.vfd)
                     /\ idr' = [idr EXCEPT ![id] = iw.vfd]
                     /\ vfd' = vfd
       /\ (iw.pc = "new_set" /\ WorkSteps)
          => LET m == inbuf[iw.buf].msg
                 v == vfd'[iw.vfd]
             IN /\ iw'.pc = "ret"
                /\ idr' = idr
                /\ idr[m.vfd_id] = iw.vfd
                /\ v.id = m.vfd_id /\ v.size = m.size
                /\ v.pfn = m.pfn /\ v.flags = m.flags
       /\ (iw.pc = "ret" /\ WorkSteps)
          => /\ iw'.pc = "idle"
             /\ inbuf'[iw.buf].where = "avail"
             /\ idr' = idr /\ vfd' = vfd]_vars

\* ---------------------------------------------------------------- C19
\* C19: when the work item handles a host message of type VFD_RECV whose
\* target id is in the handle table, the buffer becomes the last entry of the
\* pending queue of that VFD, both cursors zero, no other queue changes, and
\* the buffer stays with the driver; when the id is not in the table, or the
\* type of the message is neither VFD_NEW nor VFD_RECV, the buffer goes back
\* to the inbound queue and no pending queue changes.
C19_HostRecvQueued ==
    [][/\ (iw.pc = "idle" /\ WorkSteps
             /\ inbuf[iw'.buf].msg.type \notin {"CMD_VFD_NEW", "CMD_VFD_RECV"})
          => iw'.pc = "ret" /\ vfd' = vfd /\ idr' = idr
       /\ (iw.pc = "idle" /\ WorkSteps /\ inbuf[iw'.buf].msg.type = "CMD_VFD_RECV")
          => iw'.pc = "recv_tbl" /\ vfd' = vfd /\ idr' = idr
       /\ (iw.pc = "recv_tbl" /\ WorkSteps)
          => LET p == idr[inbuf[iw.buf].msg.vfd_id]
             IN /\ vfd' = vfd /\ idr' = idr /\ inbuf' = inbuf
                /\ IF p = NULL THEN iw'.pc = "ret"
                   ELSE iw'.pc = "recv_vfd" /\ iw'.vfd = p /\ IsVfdPtr(p)
       /\ (iw.pc = "recv_vfd" /\ WorkSteps)
          => LET p == iw.vfd
             IN /\ vfd' = [vfd EXCEPT ![p].in_queue =
                                 Append(@, [buf |-> iw.buf, vfd_offset |-> 0,
                                            data_offset |-> 0])]
                /\ inbuf' = [inbuf EXCEPT ![iw.buf].where = "queued"]
                /\ idr' = idr
                /\ iw'.pc = "idle"
                /\ vfd[p].alloc
                /\ idr[inbuf[iw.buf].msg.vfd_id] = p
       /\ (iw.pc = "ret" /\ WorkSteps)
          => /\ inbuf'[iw.buf].where = "avail"
             /\ Queues' = Queues]_vars

\* ---------------------------------------------------------------- C20
\* an allocation fails in this step
AllocFails == budget'.enomem < budget.enomem

\* C20: a create whose VFD allocation fails returns -ENOMEM, a create that
\* finds no free guest id returns the failure of idr_alloc and frees its VFD,
\* both with the handle table unchanged; a host VFD_NEW message whose VFD
\* allocation fails is dropped and its buffer given back; the failed
\* allocation is never registered and never dereferenced.
C20_ExhaustionSurfaced ==
    [][/\ \A t \in Threads :
             /\ (pc[t] = "idle" /\ Steps(t) /\ loc'[t].sys = "new" /\ AllocFails)
                => /\ pc'[t] = "done"
                   /\ loc'[t].ret = "ENOMEM"
                   /\ idr' = idr /\ vfd' = vfd
             /\ (loc[t].op = "new" /\ pc[t] = "new_idr" /\ Steps(t)
                   /\ idr_alloc(idr, 1, VIRTWL_MAX_ALLOC) <= 0)
                => /\ pc'[t] = "done"
                   /\ loc'[t].ret \in {"ENOSPC", "ENOMEM"}
                   /\ idr' = idr
                   /\ ~vfd'[loc[t].vfd].alloc
       /\ (iw.pc = "idle" /\ WorkSteps /\ AllocFails)
          => iw'.pc = "ret" /\ idr' = idr /\ vfd' = vfd
       /\ \A k \in IdSpace : idr'[k] # ERR_PTR_ENOMEM]_vars

\* ---------------------------------------------------------------- C21
\* a create or send of some thread has got the generic-error acknowledgment:
\* virtwl_resp_err has mapped it to -ENODEV
Unreliable ==
    \E t \in Threads :
       /\ pc[t] = "done"
       /\ loc[t].sys \in {"new", "send"}
       /\ loc[t].ret = "ENODEV"

\* C21: once a request has been answered with VIRTIO_WL_RESP_ERR, a create or
\* send that is called afterwards returns -ENODEV at once: it allocates
\* nothing, registers nothing and submits nothing to the outbound queue.
C21_UnreliableFailsFast ==
    [][\A u \in Threads :
          (Unreliable /\ pc[u] = "idle" /\ Steps(u) /\ loc'[u].sys \in {"new", "send"})
          => /\ pc'[u] = "done"
             /\ loc'[u].ret = "ENODEV"
             /\ vfd' = vfd /\ idr' = idr /\ out_vq' = out_vq]_vars

\* ---------------------------------------------------------------- C22
\* C22: a receive call that stands at the head of its drain loop, both locks
\* held, gets out of it: it returns, with or without data, or it finds the
\* queue empty and waits with the locks released.
C22_ReceiveTerminates ==
    \A t \in Threads :
       (loc[t].op = "recv" /\ pc[t] = "rv_loop")
       ~> (pc[t] \in {"rv_wait", "rv_getfd", "done", "idle"})

\* ---------------------------------------------------------------- C23
\* the guest files whose private_data is the VFD in slot p
FilesOf(p) == {f \in Fds : files[f] = p}

\* C23: at most one guest file refers to a VFD, whatever handle ids the host
\* names in its messages; do_vfd_close is called on a VFD that is allocated
\* and that no call in progress is closing already, so that a VFD is torn
\* down once, also when anon_inode_getfd fails in virtwl_ioctl_recv.
C23_OneFileOneTeardown ==
    [][/\ \A p \in Slots : Cardinality(FilesOf(p))' <= 1
       /\ \A t \in Threads :
             (pc[t] = "close_start" /\ Steps(t))
             => LET p == Head(loc[t].todo)
                IN /\ IsVfdPtr(p)
                   /\ vfd[p].alloc
                   /\ \A i \in 2..Len(loc[t].todo) : loc[t].todo[i] # p
                   /\ \A u \in Threads \ {t} :
                         ~(loc[u].op = "close" /\ loc[u].vfd = p
                           /\ pc[u] \notin {"idle", "done"})]_vars

\* the lock the thread or work item o is about to take at its position, as
\* the owner that holds it now (NULL: o is not at a lock, or the lock is free)
Holder(o) ==
    IF o = InWorker
    THEN IF iw.pc \in {"new_tbl", "recv_tbl"} THEN vfds_lock
         ELSE IF iw.pc = "recv_vfd" THEN vfd[iw.vfd].lock
         ELSE IF iw.pc = "ret" THEN vq_lock_in
         ELSE NULL
    ELSE IF pc[o] \in {"lu_tbl", "new_tbl", "rv_tbl"} THEN vfds_lock
         ELSE IF pc[o] \in {"lu_vfd", "rv_vfd"} /\ IsVfdPtr(loc[o].vfd)
              THEN vfd[loc[o].vfd].lock
         ELSE IF pc[o] \in {"rm_vq", "rv_data_fie", "rv_vfds_fie"} THEN vq_lock_in
         ELSE IF pc[o] = "qo_lock" THEN vq_lock_out
         ELSE NULL

\* a set of threads and work items each waiting for a lock that another
\* member of the set holds
Deadlocked(S) == S # {} /\ \A o \in S : Holder(o) \in S \ {o}

\* C24: with guest threads running create, send, receive and close next to the
\* inbound and outbound workers, no reachable state has a set of threads each
\* waiting for a lock held by a thread of the set; a host data push for an ID
\* whose create still holds the VFD lock waits for the create and goes on.
C24_NoDeadlock == \A S \in SUBSET LockOwners : ~Deadlocked(S)

\* ---------------------------------------------------------------- C25
\* the VFD p is registered under the ID its id field holds, which is not 0
IdIsKey(p) == vfd[p].id \in IdSpace /\ idr[vfd[p].id] = p

\* C25: registration and field population of a VFD are not seen apart: every
\* VFD that the handle extraction of a receive gets from the table, and every
\* VFD the inbound dispatch has looked up and locked, has an id field equal to
\* the key it is registered under, whether a guest create or a host push
\* registered it.
C25_LookupSeesId ==
    [][/\ \A t \in Threads :
             pc[t] = "rv_vfds"
             => \A j \in (Len(loc[t].vr) + 1)..Len(loc'[t].vr) :
                   /\ IsVfdPtr(loc'[t].vr[j])
                   /\ IdIsKey(loc'[t].vr[j])
       /\ (iw.pc = "recv_vfd" /\ WorkSteps)
             => vfd[iw.vfd].id = inbuf[iw.buf].msg.vfd_id]_vars

\* ---------------------------------------------------------------- C26
\* the buffer b is in the inbound transport queue, posted or filled by the host
Posted(b) == inbuf[b].where \in {"avail", "used"}

\* the inbound worker has taken the buffer b and not yet queued or returned it
Dispatched(b) == iw.pc # "idle" /\ iw.buf = b

\* the entries of pending queues of allocated VFDs that hold the buffer b
Links(b) ==
    {e \in Slots \X (1..NumInBuf) :
        /\ vfd[e[1]].alloc
        /\ e[2] <= Len(vfd[e[1]].in_queue)
        /\ vfd[e[1]].in_queue[e[2]].buf = b}

Places(b) ==
    (IF Posted(b) THEN 1 ELSE 0) + (IF Dispatched(b) THEN 1 ELSE 0)
        + Cardinality(Links(b))

\* C26: receive buffers are conserved: every buffer handed to the device at
\* start-up is in exactly one place, posted to the inbound queue, being
\* dispatched by the inbound worker, or linked in the pending queue of exactly
\* one VFD that is still allocated.
C26_BuffersConserved == \A b \in Bufs : Places(b) = 1

====
